---- MODULE Spec2Model ----
(***************************************************************************)
(* Model of the peak-threads library: the shared-memory synchronisation    *)
(* primitives (Mutex, Semaphore, Barrier, WaitGroup, ConditionVariable)    *)
(* built on Atomics, and the parent/worker message protocol of Thread.     *)
(*                                                                         *)
(* Every atomic operation of the source is one step of the worker that     *)
(* executes it; steps of different workers interleave freely.  The         *)
(* blocking and the promise-based variant of an operation execute the same *)
(* sequence of atomic operations and are modelled by the same steps unless *)
(* their code differs (ConditionVariable.wait / waitAsync).                *)
(***************************************************************************)
EXTENDS Integers, Sequences, FiniteSets, TLC

VARIABLES
    mem,        \* shared Int32 words, by name
    waiters,    \* per word: FIFO list of workers blocked in Atomics.wait / waitAsync
    pc,         \* per worker: position in the code
    timeout,    \* per worker: the `timeout` (for notify: `count`) parameter /
                \* local of the running call (Infinity between calls)
    val,        \* per worker: local snapshot (`val`, `cur`, `e`) of the running call
                \* (0 between calls)
    held,       \* per worker: module-level `held` array (Mutex instances)
    caller,     \* per worker: which operation invoked the running Mutex call
                \* ("user" between calls)
    result,     \* per worker: return value of the last finished call
    hist,       \* history: bookkeeping that the properties refer to
    toWorker,   \* messages posted by the parent, not yet dispatched in the worker
    toParent,   \* messages posted by the worker, not yet dispatched in the parent
    thread,     \* the parent's Thread object: workQueue, pending, incWorkId, killed
    worker,     \* the worker's globals and its suspended onmessage invocations
    promise,    \* the promises handed to the caller of spawn / sendWork / share
    pool,       \* the ThreadPool object, its descriptors, workers and awaits
    call        \* the running call of a function of the library: its arguments,
                \* locals and return value

primVars == <<mem, waiters, pc, timeout, val, held, caller, result, hist>>

thrVars == <<toWorker, toParent, thread, worker, promise, pool, call>>

vars == <<primVars, thrVars>>

-----------------------------------------------------------------------------
(* Bounds *)

MutexWorkers == 3
MaxTimeout == 1
SemWorkers == 2
SemValue == 1
BarrierWorkers == 3
MaxNeeded == 2
MaxEpochs == 2
WgWorkers == 2
MaxTasks == 2
CvWorkers == 3
MaxRequests == 3
MaxWork == 2
MaxEvents == 2
MaxCloses == 2
MaxKills == 1
MaxThreads == 2
MaxSpawns == 4
MaxCalls == 2
QueueRetries == 2
MaxBuffers == 2
MemLen == 3
MaxEntries == 2
MaxItems == 2
MaxCount == 2
HeldWorkers == 2
MaxReady == 3
MaxPending == 2
MaxOps == 3
MaxValue == 2
MaxLocks == 4
SemFairWorkers == 3
IdleMs == 100

(* JS Infinity: larger than every finite timeout and every index *)
Infinity == MaxTimeout + 1000

Timeouts == (0..MaxTimeout) \cup {Infinity}

IsFinite(t) == t # Infinity

Words == {"mux", "mux2", "sem", "wg", "numHit", "epochSeq", "prev", "seq"}

-----------------------------------------------------------------------------
(* Platform atomics, as used through Address *)

Min(a, b) == IF a < b THEN a ELSE b

(* Atomics.compareExchange: the value the word holds afterwards (the call
   returns cur) *)
AtomicCmpExch(cur, expected, replacement) ==
    IF cur = expected THEN replacement ELSE cur

(* Atomics.notify(word, cnt): the first cnt waiters of the FIFO list are woken *)
Woken(q, cnt) == SubSeq(q, 1, Min(cnt, Len(q)))
StillWaiting(q, cnt) == SubSeq(q, Min(cnt, Len(q)) + 1, Len(q))

SeqRange(s) == {s[i] : i \in 1..Len(s)}

RemoveFrom(q, w) == SelectSeq(q, LAMBDA x : x # w)

(* where a worker continues after Atomics.wait returned "ok" *)
WokenPc(p) ==
    CASE p = "lk_sleep" -> "lk_retry"
      [] p = "sem_sleep" -> "sem_loop"
      [] p = "bar_sleep" -> "bar_return"
      [] p = "wg_sleep" -> "wg_loop"
      [] p = "cv_sleep" -> "cv_lock"
      [] OTHER -> p

(* Atomics.notify on `word`: new pc and waiters *)
NotifyPc(word, cnt) ==
    [x \in DOMAIN pc |->
        IF x \in SeqRange(Woken(waiters[word], cnt)) THEN WokenPc(pc[x]) ELSE pc[x]]

NotifyWaiters(word, cnt) ==
    [waiters EXCEPT ![word] = StillWaiting(waiters[word], cnt)]

-----------------------------------------------------------------------------
(* Mutex *)

unlocked == 0
locked == 1
contended == 2

(* Array.prototype.indexOf: 0-based, -1 when absent *)
IndexOf(s, x) ==
    IF \E i \in 1..Len(s) : s[i] = x
    THEN (CHOOSE i \in 1..Len(s) : s[i] = x /\ \A j \in 1..(i-1) : s[j] # x) - 1
    ELSE -1

(* Array.prototype.splice(i, 1): a negative i counts from the end *)
Splice1(s, i) ==
    LET k == IF i < 0 THEN Len(s) + i + 1 ELSE i + 1
    IN  IF k < 1 \/ k > Len(s) THEN s
        ELSE SubSeq(s, 1, k - 1) \o SubSeq(s, k + 1, Len(s))

Acquired_NotContended(old) == old # contended

(* the test `atomicCmpExch(unlocked, ...) === Mutex.unlocked` on the value
   the compare-exchange returned *)
Acquired(old) == old = unlocked

(* where the caller of lock / lockAsync continues with result r *)
LockReturnsTo(c, r) ==
    CASE c = "user" -> IF r THEN "holding" ELSE "idle"
      [] c = "bar"  -> "bar_arrive"
      [] c \in {"cv_wait", "cv_waitAsync"} -> "cv_ret"

AfterLock(w, r) == LockReturnsTo(caller[w], r)

(* where the caller of unlock continues *)
UnlockReturnsTo(c) ==
    CASE c = "user" -> "idle"
      [] c = "bar_waiter" -> "bar_wait"
      [] c = "bar_last" -> "bar_return"
      [] c \in {"cv_wait", "cv_waitAsync"} -> "cv_atomicWait"

AfterUnlock(w) == UnlockReturnsTo(caller[w])

(* the Mutex instances a worker can hold: "mux" and "muxCopy" are two objects
   hydrated from the same shared mutex, "mux2" is another mutex *)
MutexAddr(m) == IF m = "mux2" THEN "mux2" ELSE "mux"

(* `this` of the running Mutex call of worker w ("mux" where the workers
   share one instance) *)
this(w) == IF w \in DOMAIN call THEN call[w].this ELSE "mux"

mutexAddr(w) == MutexAddr(this(w))

(* lock / lockAsync on instance m called from c: the uncontended fast path *)
LockOn(m, w, t, c) ==
    /\ mem' = [mem EXCEPT ![MutexAddr(m)] = AtomicCmpExch(@, unlocked, locked)]
    /\ caller' = [caller EXCEPT ![w] = c]
    /\ IF Acquired(mem[MutexAddr(m)])
       THEN /\ held' = [held EXCEPT ![w] = Append(held[w], m)]
            /\ pc' = [pc EXCEPT ![w] = LockReturnsTo(c, TRUE)]
            /\ result' = [result EXCEPT ![w] = TRUE]
            /\ UNCHANGED timeout
       ELSE /\ pc' = [pc EXCEPT ![w] = "lk_contend"]
            /\ timeout' = [timeout EXCEPT ![w] = t]
            /\ UNCHANGED <<held, result>>
    /\ UNCHANGED waiters

LockCall(w, t, c) == LockOn("mux", w, t, c)

(* unlock on instance m called from c: atomicSub(1); the uncontended case
   ends here *)
UnlockOn(m, w, c) ==
    /\ mem' = [mem EXCEPT ![MutexAddr(m)] = @ - 1]
    /\ caller' = [caller EXCEPT ![w] = c]
    /\ IF mem[MutexAddr(m)] # locked
       THEN /\ pc' = [pc EXCEPT ![w] = "ul_store"]
            /\ UNCHANGED held
       ELSE /\ pc' = [pc EXCEPT ![w] = UnlockReturnsTo(c)]
            /\ held' = [held EXCEPT ![w] = Splice1(held[w], IndexOf(held[w], m))]
    /\ UNCHANGED waiters

UnlockCall(w, c) == UnlockOn("mux", w, c)

(* a worker calls lock / lockAsync on the shared mutex *)
lock(w, t) ==
    /\ pc[w] = "idle"
    /\ LockCall(w, t, "user")
    /\ UNCHANGED <<val, hist>>
    /\ UNCHANGED thrVars

(* loop head: publish contention *)
lockContend(w) ==
    /\ pc[w] = "lk_contend"
    /\ mem' = [mem EXCEPT ![mutexAddr(w)] = AtomicCmpExch(@, locked, contended)]
    /\ pc' = [pc EXCEPT ![w] = "lk_wait"]
    /\ UNCHANGED <<waiters, timeout, val, held, caller, result, hist>>
    /\ UNCHANGED thrVars

(* atomicWait(contended, timeout): not-equal, immediate time-out, or sleep *)
lockWait(w) ==
    /\ pc[w] = "lk_wait"
    /\ IF mem[mutexAddr(w)] # contended
       THEN /\ pc' = [pc EXCEPT ![w] = "lk_retry"]
            /\ UNCHANGED <<waiters, result, timeout>>
       ELSE IF timeout[w] = 0
       THEN /\ pc' = [pc EXCEPT ![w] = AfterLock(w, FALSE)]
            /\ result' = [result EXCEPT ![w] = FALSE]
            /\ timeout' = [timeout EXCEPT ![w] = Infinity]
            /\ UNCHANGED waiters
       ELSE /\ pc' = [pc EXCEPT ![w] = "lk_sleep"]
            /\ waiters' = [waiters EXCEPT ![mutexAddr(w)] = Append(@, w)]
            /\ UNCHANGED <<result, timeout>>
    /\ UNCHANGED <<mem, val, held, caller, hist>>
    /\ UNCHANGED thrVars

(* the wait of a sleeping locker with a finite timeout runs out *)
lockTimedOut(w) ==
    /\ pc[w] = "lk_sleep"
    /\ IsFinite(timeout[w])
    /\ waiters' = [waiters EXCEPT ![mutexAddr(w)] = RemoveFrom(@, w)]
    /\ pc' = [pc EXCEPT ![w] = AfterLock(w, FALSE)]
    /\ result' = [result EXCEPT ![w] = FALSE]
    /\ timeout' = [timeout EXCEPT ![w] = Infinity]
    /\ UNCHANGED <<mem, val, held, caller, hist>>
    /\ UNCHANGED thrVars

(* after the wait: try to take the lock as contended, else budget the timeout *)
lockRetry(w) ==
    /\ pc[w] = "lk_retry"
    /\ mem' = [mem EXCEPT ![mutexAddr(w)] = AtomicCmpExch(@, unlocked, contended)]
    /\ IF Acquired(mem[mutexAddr(w)])
       THEN /\ held' = [held EXCEPT ![w] = Append(held[w], this(w))]
            /\ pc' = [pc EXCEPT ![w] = AfterLock(w, TRUE)]
            /\ result' = [result EXCEPT ![w] = TRUE]
            /\ timeout' = [timeout EXCEPT ![w] = Infinity]
       ELSE IF IsFinite(timeout[w])
       THEN \E elapsed \in 0..MaxTimeout :
              IF timeout[w] - elapsed <= 0
              THEN /\ pc' = [pc EXCEPT ![w] = AfterLock(w, FALSE)]
                   /\ result' = [result EXCEPT ![w] = FALSE]
                   /\ timeout' = [timeout EXCEPT ![w] = Infinity]
                   /\ UNCHANGED held
              ELSE /\ pc' = [pc EXCEPT ![w] = "lk_contend"]
                   /\ timeout' = [timeout EXCEPT ![w] = timeout[w] - elapsed]
                   /\ UNCHANGED <<held, result>>
       ELSE /\ pc' = [pc EXCEPT ![w] = "lk_contend"]
            /\ UNCHANGED <<timeout, held, result>>
    /\ UNCHANGED <<waiters, val, caller, hist>>
    /\ UNCHANGED thrVars

(* tryLock on instance m *)
TryLockOn(m, w) ==
    /\ mem' = [mem EXCEPT ![MutexAddr(m)] = AtomicCmpExch(@, unlocked, locked)]
    /\ result' = [result EXCEPT ![w] = Acquired(mem[MutexAddr(m)])]
    /\ IF Acquired(mem[MutexAddr(m)])
       THEN /\ held' = [held EXCEPT ![w] = Append(held[w], m)]
            /\ pc' = [pc EXCEPT ![w] = "holding"]
       ELSE UNCHANGED <<held, pc>>
    /\ UNCHANGED <<waiters, timeout, val, caller>>

tryLock(w) ==
    /\ pc[w] = "idle"
    /\ TryLockOn("mux", w)
    /\ UNCHANGED hist
    /\ UNCHANGED thrVars

(* the holder calls unlock *)
unlock(w) ==
    /\ pc[w] = "holding"
    /\ UnlockCall(w, "user")
    /\ UNCHANGED <<timeout, val, result, hist>>
    /\ UNCHANGED thrVars

unlockStore(w) ==
    /\ pc[w] = "ul_store"
    /\ mem' = [mem EXCEPT ![mutexAddr(w)] = unlocked]
    /\ pc' = [pc EXCEPT ![w] = "ul_notify"]
    /\ UNCHANGED <<waiters, timeout, val, held, caller, result, hist>>
    /\ UNCHANGED thrVars

unlockNotify(w) ==
    /\ pc[w] = "ul_notify"
    /\ waiters' = NotifyWaiters(mutexAddr(w), 1)
    /\ pc' = [NotifyPc(mutexAddr(w), 1) EXCEPT ![w] = AfterUnlock(w)]
    /\ held' = [held EXCEPT ![w] = Splice1(held[w], IndexOf(held[w], this(w)))]
    /\ UNCHANGED <<mem, timeout, val, caller, result, hist>>
    /\ UNCHANGED thrVars

-----------------------------------------------------------------------------
(* Workers sharing one Mutex *)

(* no Thread is spawned *)
NoThread ==
    /\ toWorker = <<>>
    /\ toParent = <<>>
    /\ thread = <<>>
    /\ worker = <<>>
    /\ promise = <<>>
    /\ pool = <<>>
    /\ call = <<>>

PrimInit(n) ==
    /\ mem = [x \in Words |-> 0]
    /\ waiters = [x \in Words |-> <<>>]
    /\ pc = [w \in 1..n |-> "idle"]
    /\ timeout = [w \in 1..n |-> Infinity]
    /\ val = [w \in 1..n |-> 0]
    /\ held = [w \in 1..n |-> <<>>]
    /\ caller = [w \in 1..n |-> "user"]
    /\ result = [w \in 1..n |-> FALSE]
    /\ NoThread

InitMutex ==
    /\ PrimInit(MutexWorkers)
    /\ hist = <<>>

NextMutex ==
    \E w \in 1..MutexWorkers :
        \/ \E t \in Timeouts : lock(w, t)
        \/ lockContend(w)
        \/ lockWait(w)
        \/ lockTimedOut(w)
        \/ lockRetry(w)
        \/ tryLock(w)
        \/ unlock(w)
        \/ unlockStore(w)
        \/ unlockNotify(w)

SpecMutex == InitMutex /\ [][NextMutex]_vars

(* C1: at most one worker at a time is between a successful lock / lockAsync /
   tryLock and its matching unlock *)
C1_MutualExclusion ==
    Cardinality({w \in DOMAIN pc : pc[w] = "holding"}) <= 1

(* a worker holds the mutex it took on the contended path while another
   worker is blocked in lock *)
C1_Witness ==
    \E w \in DOMAIN pc, x \in DOMAIN pc :
        /\ pc[w] = "holding" /\ mem["mux"] = contended
        /\ pc[x] = "lk_sleep"
        /\ result[w]

(* the steps of the call a worker is in *)
MutexStep(w) ==
    \/ lockContend(w)
    \/ lockWait(w)
    \/ lockTimedOut(w)
    \/ lockRetry(w)
    \/ unlockStore(w)
    \/ unlockNotify(w)

(* workers that call lock / lockAsync and tryLock MaxLocks times in all;
   hist is the number of these calls so far *)
lockCall(w, t) ==
    /\ hist < MaxLocks
    /\ pc[w] = "idle"
    /\ LockCall(w, t, "user")
    /\ hist' = hist + 1
    /\ UNCHANGED val
    /\ UNCHANGED thrVars

tryLockCall(w) ==
    /\ hist < MaxLocks
    /\ pc[w] = "idle"
    /\ TryLockOn("mux", w)
    /\ hist' = hist + 1
    /\ UNCHANGED thrVars

InitMutexFair ==
    /\ PrimInit(MutexWorkers)
    /\ hist = 0

NextMutexFair ==
    \E w \in 1..MutexWorkers :
        \/ \E t \in Timeouts : lockCall(w, t)
        \/ tryLockCall(w)
        \/ unlock(w)
        \/ MutexStep(w)

(* every worker keeps executing the call it is in, timers fire, and a holder
   unlocks in the end *)
SpecMutexFair ==
    /\ InitMutexFair
    /\ [][NextMutexFair]_vars
    /\ \A w \in 1..MutexWorkers : WF_vars(MutexStep(w)) /\ WF_vars(unlock(w))

(* C37: a worker asleep in lock / lockAsync with infinite timeout does not
   stay asleep once the mutex has been unlocked: the unlock that freed the
   mutex wakes it (or another blocked worker, whose own unlock wakes it),
   also after lock attempts of other workers have timed out *)
C37_UnlockWakesWaiter ==
    \A w \in 1..MutexWorkers :
        (pc[w] = "lk_sleep" /\ timeout[w] = Infinity /\ mem["mux"] = unlocked)
            ~> (pc[w] # "lk_sleep")

-----------------------------------------------------------------------------
(* Workers holding several Mutex instances: call[w] is the instance and the
   method of the running (between calls: the last) Mutex call of worker w,
   hist[w] the instances w had acquired and not unlocked when that call began *)

Mutexes == {"mux", "muxCopy", "mux2"}

(* Mutex.hasLock of instance m on worker w *)
hasLock(w, m) == IndexOf(held[w], m) >= 0

BetweenCalls(w) == pc[w] \in {"idle", "holding"}

(* the instances w has acquired through lock, lockAsync or tryLock and whose
   mutex it has not unlocked since *)
AcquiredBy(w) ==
    IF BetweenCalls(w) /\ call[w].method \in {"lock", "tryLock"} /\ result[w]
    THEN hist[w] \cup {call[w].this}
    ELSE hist[w]

Owns(w, m) == \E i \in AcquiredBy(w) : MutexAddr(i) = MutexAddr(m)

mutexLock(w, m, t) ==
    /\ BetweenCalls(w)
    /\ LockOn(m, w, t, "user")
    /\ call' = [call EXCEPT ![w] = [this |-> m, method |-> "lock"]]
    /\ hist' = [hist EXCEPT ![w] = AcquiredBy(w)]
    /\ UNCHANGED val
    /\ UNCHANGED <<toWorker, toParent, thread, worker, promise, pool>>

mutexTryLock(w, m) ==
    /\ BetweenCalls(w)
    /\ TryLockOn(m, w)
    /\ call' = [call EXCEPT ![w] = [this |-> m, method |-> "tryLock"]]
    /\ hist' = [hist EXCEPT ![w] = AcquiredBy(w)]
    /\ UNCHANGED <<toWorker, toParent, thread, worker, promise, pool>>

(* unlock of instance m, by a worker that holds the mutex of m *)
mutexUnlock(w, m) ==
    /\ BetweenCalls(w)
    /\ Owns(w, m)
    /\ UnlockOn(m, w, "user")
    /\ call' = [call EXCEPT ![w] = [this |-> m, method |-> "unlock"]]
    /\ hist' = [hist EXCEPT ![w] =
                    {i \in AcquiredBy(w) : MutexAddr(i) # MutexAddr(m)}]
    /\ UNCHANGED <<timeout, val, result>>
    /\ UNCHANGED <<toWorker, toParent, thread, worker, promise, pool>>

InitMutexHeld ==
    /\ mem = [x \in Words |-> 0]
    /\ waiters = [x \in Words |-> <<>>]
    /\ pc = [w \in 1..HeldWorkers |-> "idle"]
    /\ timeout = [w \in 1..HeldWorkers |-> Infinity]
    /\ val = [w \in 1..HeldWorkers |-> 0]
    /\ held = [w \in 1..HeldWorkers |-> <<>>]
    /\ caller = [w \in 1..HeldWorkers |-> "user"]
    /\ result = [w \in 1..HeldWorkers |-> FALSE]
    /\ hist = [w \in 1..HeldWorkers |-> {}]
    /\ call = [w \in 1..HeldWorkers |-> [this |-> "mux", method |-> "none"]]
    /\ toWorker = <<>>
    /\ toParent = <<>>
    /\ thread = <<>>
    /\ worker = <<>>
    /\ promise = <<>>
    /\ pool = <<>>

NextMutexHeld ==
    \E w \in 1..HeldWorkers :
        \/ \E m \in Mutexes, t \in Timeouts : mutexLock(w, m, t)
        \/ \E m \in Mutexes : mutexTryLock(w, m)
        \/ \E m \in Mutexes : mutexUnlock(w, m)
        \/ lockContend(w)
        \/ lockWait(w)
        \/ lockTimedOut(w)
        \/ lockRetry(w)
        \/ unlockStore(w)
        \/ unlockNotify(w)

SpecMutexHeld == InitMutexHeld /\ [][NextMutexHeld]_vars

(* C31: between its calls, hasLock() of an instance is true on a worker
   exactly when the worker has acquired that instance through lock, lockAsync
   or tryLock and has not unlocked its mutex since; calls on the other
   instances do not change it *)
C31_HasLockIffAcquired ==
    \A w \in DOMAIN pc : \A m \in Mutexes :
        BetweenCalls(w) => (hasLock(w, m) <=> m \in AcquiredBy(w))

-----------------------------------------------------------------------------
(* Semaphore: the word counts the permits currently held; hist[w] is the
   number of permits worker w holds (acquired and not yet released) *)

HasFree_Inclusive(v) == v <= SemValue

(* the test `val < this.value` on the loaded counter *)
HasFree(v) == v < SemValue

(* atomicLoad at the head of the loop body, and the local test on it *)
SemLoad(w) ==
    /\ val' = [val EXCEPT ![w] = mem["sem"]]
    /\ pc' = [pc EXCEPT ![w] = IF HasFree(mem["sem"]) THEN "sem_cas" ELSE "sem_wait"]

(* acquire / acquireAsync entry *)
acquire(w, t) ==
    /\ pc[w] = "idle"
    /\ timeout' = [timeout EXCEPT ![w] = t]
    /\ SemLoad(w)
    /\ UNCHANGED <<mem, waiters, held, caller, result, hist>>
    /\ UNCHANGED thrVars

(* atomicCmpExch(val, val + 1) === val *)
acquireCas(w) ==
    /\ pc[w] = "sem_cas"
    /\ mem' = [mem EXCEPT !["sem"] = AtomicCmpExch(mem["sem"], val[w], val[w] + 1)]
    /\ IF mem["sem"] = val[w]
       THEN /\ pc' = [pc EXCEPT ![w] = "idle"]
            /\ result' = [result EXCEPT ![w] = TRUE]
            /\ timeout' = [timeout EXCEPT ![w] = Infinity]
            /\ hist' = [hist EXCEPT ![w] = @ + 1]
            /\ val' = [val EXCEPT ![w] = 0]
       ELSE /\ pc' = [pc EXCEPT ![w] = "sem_wait"]
            /\ UNCHANGED <<result, timeout, hist, val>>
    /\ UNCHANGED <<waiters, held, caller>>
    /\ UNCHANGED thrVars

(* atomicWait(this.value, timeout) *)
acquireWait(w) ==
    /\ pc[w] = "sem_wait"
    /\ IF mem["sem"] # SemValue
       THEN /\ pc' = [pc EXCEPT ![w] = "sem_loop"]
            /\ UNCHANGED <<waiters, result, timeout, val>>
       ELSE IF timeout[w] = 0
       THEN /\ pc' = [pc EXCEPT ![w] = "idle"]
            /\ result' = [result EXCEPT ![w] = FALSE]
            /\ timeout' = [timeout EXCEPT ![w] = Infinity]
            /\ val' = [val EXCEPT ![w] = 0]
            /\ UNCHANGED waiters
       ELSE /\ pc' = [pc EXCEPT ![w] = "sem_sleep"]
            /\ waiters' = [waiters EXCEPT !["sem"] = Append(@, w)]
            /\ UNCHANGED <<result, timeout, val>>
    /\ UNCHANGED <<mem, held, caller, hist>>
    /\ UNCHANGED thrVars

(* the wait of a sleeping acquirer with a finite timeout runs out *)
acquireTimedOut(w) ==
    /\ pc[w] = "sem_sleep"
    /\ IsFinite(timeout[w])
    /\ waiters' = [waiters EXCEPT !["sem"] = RemoveFrom(@, w)]
    /\ pc' = [pc EXCEPT ![w] = "idle"]
    /\ result' = [result EXCEPT ![w] = FALSE]
    /\ timeout' = [timeout EXCEPT ![w] = Infinity]
    /\ val' = [val EXCEPT ![w] = 0]
    /\ UNCHANGED <<mem, held, caller, hist>>
    /\ UNCHANGED thrVars

(* after the wait: budget the timeout, then the next iteration's load *)
acquireLoop(w) ==
    /\ pc[w] = "sem_loop"
    /\ IF IsFinite(timeout[w])
       THEN \E elapsed \in 0..MaxTimeout :
              IF timeout[w] - elapsed <= 0
              THEN /\ pc' = [pc EXCEPT ![w] = "idle"]
                   /\ result' = [result EXCEPT ![w] = FALSE]
                   /\ timeout' = [timeout EXCEPT ![w] = Infinity]
                   /\ val' = [val EXCEPT ![w] = 0]
              ELSE /\ timeout' = [timeout EXCEPT ![w] = timeout[w] - elapsed]
                   /\ SemLoad(w)
                   /\ UNCHANGED result
       ELSE /\ SemLoad(w)
            /\ UNCHANGED <<timeout, result>>
    /\ UNCHANGED <<mem, waiters, held, caller, hist>>
    /\ UNCHANGED thrVars

(* release entry: atomicSub(1), by a worker that holds a permit *)
release(w) ==
    /\ pc[w] = "idle"
    /\ hist[w] > 0
    /\ mem' = [mem EXCEPT !["sem"] = mem["sem"] - 1]
    /\ hist' = [hist EXCEPT ![w] = @ - 1]
    /\ pc' = [pc EXCEPT ![w] = "rel_notify"]
    /\ UNCHANGED <<waiters, timeout, val, held, caller, result>>
    /\ UNCHANGED thrVars

releaseNotify(w) ==
    /\ pc[w] = "rel_notify"
    /\ waiters' = NotifyWaiters("sem", 1)
    /\ pc' = [NotifyPc("sem", 1) EXCEPT ![w] = "idle"]
    /\ UNCHANGED <<mem, timeout, val, held, caller, result, hist>>
    /\ UNCHANGED thrVars

InitSemaphore ==
    /\ PrimInit(SemWorkers)
    /\ hist = [w \in 1..SemWorkers |-> 0]

NextSemaphore ==
    \E w \in 1..SemWorkers :
        \/ \E t \in Timeouts : acquire(w, t)
        \/ acquireCas(w)
        \/ acquireWait(w)
        \/ acquireTimedOut(w)
        \/ acquireLoop(w)
        \/ release(w)
        \/ releaseNotify(w)

SpecSemaphore == InitSemaphore /\ [][NextSemaphore]_vars

(* C2: the number of workers holding a permit never exceeds value and the
   shared counter stays within 0..value *)
C2_SemaphoreBound ==
    /\ Cardinality({w \in DOMAIN hist : hist[w] > 0}) <= SemValue
    /\ mem["sem"] \in 0..SemValue

(* every permit is taken, by different workers, while another worker is
   blocked in acquire *)
C2_Witness ==
    /\ mem["sem"] = SemValue
    /\ Cardinality({w \in DOMAIN hist : hist[w] > 0}) = SemValue
    /\ \E w \in DOMAIN pc : pc[w] = "sem_sleep"

(* the steps of the call a worker is in *)
SemaphoreStep(w) ==
    \/ acquireCas(w)
    \/ acquireWait(w)
    \/ acquireTimedOut(w)
    \/ acquireLoop(w)
    \/ releaseNotify(w)

InitSemaphoreFair ==
    /\ PrimInit(SemFairWorkers)
    /\ hist = [w \in 1..SemFairWorkers |-> 0]

NextSemaphoreFair ==
    \E w \in 1..SemFairWorkers :
        \/ \E t \in Timeouts : acquire(w, t)
        \/ release(w)
        \/ SemaphoreStep(w)

(* every worker keeps executing the call it is in, timers fire, and a worker
   that holds a permit releases it in the end *)
SpecSemaphoreFair ==
    /\ InitSemaphoreFair
    /\ [][NextSemaphoreFair]_vars
    /\ \A w \in 1..SemFairWorkers :
           WF_vars(SemaphoreStep(w)) /\ WF_vars(release(w))

(* C38: a worker asleep in acquire / acquireAsync with infinite timeout does
   not stay asleep while the counter is below value: the release that freed
   the permit wakes it, or wakes another worker that takes the permit *)
C38_ReleaseWakesWaiter ==
    \A w \in 1..SemFairWorkers :
        (pc[w] = "sem_sleep" /\ timeout[w] = Infinity /\ mem["sem"] < SemValue)
            ~> (pc[w] # "sem_sleep" \/ mem["sem"] >= SemValue)

(* Semaphore.hasAcquired on worker w: the module-level held array of the
   Semaphore module, which acquire, acquireAsync and release leave alone *)
hasAcquired(w) == IndexOf(held[w], "sem") >= 0

(* C32: between its calls, hasAcquired() is true on a worker exactly when the
   worker holds a permit: an acquire or acquireAsync of it succeeded and it has
   not released every permit it acquired *)
C32_HasAcquiredIffHolding ==
    \A w \in DOMAIN pc :
        pc[w] = "idle" => (hasAcquired(w) <=> hist[w] > 0)

-----------------------------------------------------------------------------
(* Barrier: embedded Mutex + words numHit and epochSeq.
   hist.arrivals[e]: callers that incremented numHit while epochSeq = e
   hist.released[e]: callers of epoch e that returned from wait
   hist.inWait[w]:   epoch in which w arrived in its running call, else -1 *)

MustWait_OffByOne(n) == n + 1 < MaxNeeded

(* the test `numHit < this.maxNeeded` after the increment *)
MustWait(n) == n < MaxNeeded

(* wait / waitAsync entry: this.mutex.lock() *)
barrierWait(w) ==
    /\ pc[w] = "idle"
    /\ mem["epochSeq"] < MaxEpochs
    /\ LockCall(w, Infinity, "bar")
    /\ UNCHANGED <<val, hist>>
    /\ UNCHANGED thrVars

(* under the mutex: numHit += 1, the test, and the waiter's epoch snapshot *)
barArrive(w) ==
    /\ pc[w] = "bar_arrive"
    /\ mem' = [mem EXCEPT !["numHit"] = @ + 1]
    /\ IF MustWait(mem["numHit"] + 1)
       THEN /\ val' = [val EXCEPT ![w] = mem["epochSeq"]]
            /\ pc' = [pc EXCEPT ![w] = "bar_unlock"]
       ELSE /\ pc' = [pc EXCEPT ![w] = "bar_open"]
            /\ UNCHANGED val
    /\ hist' = [hist EXCEPT !.arrivals[mem["epochSeq"]] = @ + 1,
                            !.inWait[w] = mem["epochSeq"]]
    /\ UNCHANGED <<waiters, timeout, held, caller, result>>
    /\ UNCHANGED thrVars

(* waiter: this.mutex.unlock() *)
barWaiterUnlock(w) ==
    /\ pc[w] = "bar_unlock"
    /\ UnlockCall(w, "bar_waiter")
    /\ UNCHANGED <<timeout, val, result, hist>>
    /\ UNCHANGED thrVars

(* waiter: atomicWait(e, Infinity, eventOffset) *)
barSleep(w) ==
    /\ pc[w] = "bar_wait"
    /\ IF mem["epochSeq"] # val[w]
       THEN /\ pc' = [pc EXCEPT ![w] = "bar_return"]
            /\ UNCHANGED waiters
       ELSE /\ pc' = [pc EXCEPT ![w] = "bar_sleep"]
            /\ waiters' = [waiters EXCEPT !["epochSeq"] = Append(@, w)]
    /\ UNCHANGED <<mem, timeout, val, held, caller, result, hist>>
    /\ UNCHANGED thrVars

barOpen_NoEpoch(w) ==
    /\ pc[w] = "bar_open"
    /\ mem' = [mem EXCEPT !["numHit"] = 0]
    /\ pc' = [pc EXCEPT ![w] = "bar_notify"]
    /\ UNCHANGED <<waiters, timeout, val, held, caller, result, hist>>
    /\ UNCHANGED thrVars

(* last arrival: atomicAdd(1, eventOffset), numHit := 0 *)
barOpen(w) ==
    /\ pc[w] = "bar_open"
    /\ mem' = [mem EXCEPT !["epochSeq"] = @ + 1, !["numHit"] = 0]
    /\ pc' = [pc EXCEPT ![w] = "bar_notify"]
    /\ UNCHANGED <<waiters, timeout, val, held, caller, result, hist>>
    /\ UNCHANGED thrVars

(* last arrival: atomicNotifyAll(eventOffset) *)
barNotify(w) ==
    /\ pc[w] = "bar_notify"
    /\ waiters' = NotifyWaiters("epochSeq", Infinity)
    /\ pc' = [NotifyPc("epochSeq", Infinity) EXCEPT ![w] = "bar_last_unlock"]
    /\ UNCHANGED <<mem, timeout, val, held, caller, result, hist>>
    /\ UNCHANGED thrVars

(* last arrival: this.mutex.unlock() *)
barLastUnlock(w) ==
    /\ pc[w] = "bar_last_unlock"
    /\ UnlockCall(w, "bar_last")
    /\ UNCHANGED <<timeout, val, result, hist>>
    /\ UNCHANGED thrVars

(* wait / waitAsync returns to its caller *)
barReturn(w) ==
    /\ pc[w] = "bar_return"
    /\ pc' = [pc EXCEPT ![w] = "idle"]
    /\ val' = [val EXCEPT ![w] = 0]
    /\ caller' = [caller EXCEPT ![w] = "user"]
    /\ hist' = [hist EXCEPT !.released[hist.inWait[w]] = @ + 1,
                            !.inWait[w] = -1]
    /\ UNCHANGED <<mem, waiters, timeout, held, result>>
    /\ UNCHANGED thrVars

Epochs == 0..(MaxEpochs + BarrierWorkers)

(* a fresh barrier shared by n workers *)
BarrierInit(n) ==
    /\ PrimInit(n)
    /\ hist = [arrivals |-> [e \in Epochs |-> 0],
               released |-> [e \in Epochs |-> 0],
               inWait |-> [w \in 1..n |-> -1]]

(* more participants than the barrier needs *)
InitBarrier == BarrierInit(BarrierWorkers)

(* as many participants as the barrier needs *)
InitBarrierExact == BarrierInit(MaxNeeded)

(* the steps of a call of w that is under way *)
BarrierStep(w) ==
    \/ lockContend(w)
    \/ lockWait(w)
    \/ lockRetry(w)
    \/ unlockStore(w)
    \/ unlockNotify(w)
    \/ barArrive(w)
    \/ barWaiterUnlock(w)
    \/ barSleep(w)
    \/ barOpen(w)
    \/ barNotify(w)
    \/ barLastUnlock(w)
    \/ barReturn(w)

NextBarrier ==
    \E w \in DOMAIN pc :
        \/ barrierWait(w)
        \/ BarrierStep(w)

SpecBarrier == InitBarrier /\ [][NextBarrier]_vars

(* every worker keeps executing the call it is in *)
SpecBarrierFair ==
    /\ InitBarrierExact
    /\ [][NextBarrier]_vars
    /\ \A w \in 1..MaxNeeded : WF_vars(BarrierStep(w))

Quiescent == \A w \in DOMAIN pc : pc[w] = "idle"

(* C3: no caller returns from wait / waitAsync before maxNeeded callers have
   arrived in its epoch, no epoch takes more than maxNeeded arrivals, and once
   every call has returned each epoch that was entered released exactly
   maxNeeded callers *)
C3_BarrierEpoch ==
    \A e \in Epochs :
        /\ hist.arrivals[e] <= MaxNeeded
        /\ hist.released[e] <= hist.arrivals[e]
        /\ hist.released[e] > 0 => hist.arrivals[e] = MaxNeeded
        /\ Quiescent => hist.released[e] \in {0, MaxNeeded}

(* a second epoch has released its maxNeeded callers while a further
   participant waits in a later one *)
C3_Witness ==
    /\ hist.released[0] = MaxNeeded
    /\ hist.released[1] = MaxNeeded
    /\ \E w \in DOMAIN pc : pc[w] = "bar_sleep" /\ hist.inWait[w] = 2

(* C4: once the maxNeeded-th caller of an epoch has arrived, every caller of
   that epoch eventually returns; and whenever no call is under way numHit is
   0 and the barrier's mutex is unlocked *)
C4_BarrierProgress ==
    /\ \A w \in 1..MaxNeeded :
          (hist.inWait[w] >= 0 /\ hist.arrivals[hist.inWait[w]] = MaxNeeded)
              ~> (hist.inWait[w] = -1)
    /\ [](Quiescent => (mem["numHit"] = 0 /\ mem["mux"] = unlocked))

(* the epoch was opened after a waiter released the mutex and before its
   atomicWait: the waiter is about to wait on a stale snapshot *)
C4_Witness ==
    \E w \in DOMAIN pc :
        /\ pc[w] = "bar_wait"
        /\ mem["epochSeq"] # val[w]
        /\ hist.arrivals[hist.inWait[w]] = MaxNeeded

-----------------------------------------------------------------------------
(* WaitGroup: one word counting the tasks added and not yet done *)

LastDone_Strict(prior) == prior < 1

(* the test `atomicSub(1) <= 1` on the value before the decrement *)
LastDone(prior) == prior <= 1

(* atomicLoad at the head of the loop, `cur == 0` returns true *)
WgLoad(w) ==
    IF mem["wg"] = 0
    THEN /\ pc' = [pc EXCEPT ![w] = "idle"]
         /\ result' = [result EXCEPT ![w] = TRUE]
         /\ timeout' = [timeout EXCEPT ![w] = Infinity]
         /\ val' = [val EXCEPT ![w] = 0]
    ELSE /\ pc' = [pc EXCEPT ![w] = "wg_wait"]
         /\ val' = [val EXCEPT ![w] = mem["wg"]]
         /\ UNCHANGED result

(* add(count): atomicAdd(count) *)
add(w, count) ==
    /\ pc[w] = "idle"
    /\ mem["wg"] + count <= MaxTasks
    /\ mem' = [mem EXCEPT !["wg"] = @ + count]
    /\ UNCHANGED <<waiters, pc, timeout, val, held, caller, result, hist>>
    /\ UNCHANGED thrVars

(* done entry: atomicSub(1), for a task that was added before *)
done(w) ==
    /\ pc[w] = "idle"
    /\ mem["wg"] > 0
    /\ mem' = [mem EXCEPT !["wg"] = @ - 1]
    /\ pc' = [pc EXCEPT ![w] = IF LastDone(mem["wg"]) THEN "done_notify" ELSE "idle"]
    /\ UNCHANGED <<waiters, timeout, val, held, caller, result, hist>>
    /\ UNCHANGED thrVars

(* done: atomicNotifyAll() *)
doneNotify(w) ==
    /\ pc[w] = "done_notify"
    /\ waiters' = NotifyWaiters("wg", Infinity)
    /\ pc' = [NotifyPc("wg", Infinity) EXCEPT ![w] = "idle"]
    /\ UNCHANGED <<mem, timeout, val, held, caller, result, hist>>
    /\ UNCHANGED thrVars

(* wait / waitAsync entry: first iteration's load *)
wgWait(w, t) ==
    /\ pc[w] = "idle"
    /\ IF mem["wg"] = 0
       THEN /\ WgLoad(w)
       ELSE /\ pc' = [pc EXCEPT ![w] = "wg_wait"]
            /\ val' = [val EXCEPT ![w] = mem["wg"]]
            /\ timeout' = [timeout EXCEPT ![w] = t]
            /\ result' = [result EXCEPT ![w] = FALSE]
    /\ UNCHANGED <<mem, waiters, held, caller, hist>>
    /\ UNCHANGED thrVars

(* atomicWait(cur, timeout) *)
wgAtomicWait(w) ==
    /\ pc[w] = "wg_wait"
    /\ IF mem["wg"] # val[w]
       THEN /\ pc' = [pc EXCEPT ![w] = "wg_loop"]
            /\ UNCHANGED <<waiters, result, timeout, val>>
       ELSE IF timeout[w] = 0
       THEN /\ pc' = [pc EXCEPT ![w] = "idle"]
            /\ result' = [result EXCEPT ![w] = FALSE]
            /\ timeout' = [timeout EXCEPT ![w] = Infinity]
            /\ val' = [val EXCEPT ![w] = 0]
            /\ UNCHANGED waiters
       ELSE /\ pc' = [pc EXCEPT ![w] = "wg_sleep"]
            /\ waiters' = [waiters EXCEPT !["wg"] = Append(@, w)]
            /\ UNCHANGED <<result, timeout, val>>
    /\ UNCHANGED <<mem, held, caller, hist>>
    /\ UNCHANGED thrVars

(* the wait of a sleeping waiter with a finite timeout runs out *)
wgTimedOut(w) ==
    /\ pc[w] = "wg_sleep"
    /\ IsFinite(timeout[w])
    /\ waiters' = [waiters EXCEPT !["wg"] = RemoveFrom(@, w)]
    /\ pc' = [pc EXCEPT ![w] = "idle"]
    /\ result' = [result EXCEPT ![w] = FALSE]
    /\ timeout' = [timeout EXCEPT ![w] = Infinity]
    /\ val' = [val EXCEPT ![w] = 0]
    /\ UNCHANGED <<mem, held, caller, hist>>
    /\ UNCHANGED thrVars

(* after the wait: budget the timeout, then the next iteration's load *)
wgLoop(w) ==
    /\ pc[w] = "wg_loop"
    /\ IF IsFinite(timeout[w])
       THEN \E elapsed \in 0..MaxTimeout :
              IF timeout[w] - elapsed <= 0
              THEN /\ pc' = [pc EXCEPT ![w] = "idle"]
                   /\ result' = [result EXCEPT ![w] = FALSE]
                   /\ timeout' = [timeout EXCEPT ![w] = Infinity]
                   /\ val' = [val EXCEPT ![w] = 0]
              ELSE IF mem["wg"] = 0
              THEN WgLoad(w)
              ELSE /\ WgLoad(w)
                   /\ timeout' = [timeout EXCEPT ![w] = timeout[w] - elapsed]
       ELSE IF mem["wg"] = 0
       THEN WgLoad(w)
       ELSE /\ WgLoad(w)
            /\ UNCHANGED timeout
    /\ UNCHANGED <<mem, waiters, held, caller, hist>>
    /\ UNCHANGED thrVars

(* the timeouts callers pass: none, the longest finite one, and the default *)
WgTimeouts == {0, MaxTimeout, Infinity}

InitWaitGroup ==
    /\ PrimInit(WgWorkers)
    /\ hist = <<>>

(* the steps of a call of w that is under way *)
WaitGroupStep(w) ==
    \/ doneNotify(w)
    \/ wgAtomicWait(w)
    \/ wgLoop(w)

NextWaitGroup ==
    \E w \in 1..WgWorkers :
        \/ \E count \in 1..MaxTasks : add(w, count)
        \/ done(w)
        \/ \E t \in WgTimeouts : wgWait(w, t)
        \/ wgTimedOut(w)
        \/ WaitGroupStep(w)

(* every worker keeps executing the call it is in *)
SpecWaitGroup ==
    /\ InitWaitGroup
    /\ [][NextWaitGroup]_vars
    /\ \A w \in 1..WgWorkers : WF_vars(WaitGroupStep(w))

InWgWait(w) == pc[w] \in {"wg_wait", "wg_sleep", "wg_loop"}

(* C5: once as many done calls as added tasks have occurred (the counter is
   back to 0), every pending wait / waitAsync with infinite timeout returns
   true, unless further tasks are added first *)
C5_WaitGroupConverges ==
    \A w \in 1..WgWorkers :
        (InWgWait(w) /\ timeout[w] = Infinity /\ mem["wg"] = 0)
            ~> ((pc[w] = "idle" /\ result[w]) \/ mem["wg"] # 0)

(* the last done has decremented the counter but not yet notified, while a
   waiter sleeps on an older value and another has loaded the counter but not
   yet called atomicWait *)
C5_Witness ==
    \E d \in DOMAIN pc, w \in DOMAIN pc :
        /\ pc[d] = "done_notify"
        /\ mem["wg"] = 0
        /\ pc[w] \in {"wg_sleep", "wg_wait"}
        /\ timeout[w] = Infinity

-----------------------------------------------------------------------------
(* ConditionVariable: an Address of two Int32 words, "prev" at index 0 and
   "seq" at index 1, used together with the shared Mutex.  caller[w] names
   the variant (wait / waitAsync) of the running call.  hist is the set of
   waiters with infinite timeout for which, after they released the mutex, a
   notify with a count covering all released waiters was issued. *)

CvCount == 2
prevOffset == 0
valOffset == 1

(* the workers that wait on the condition, and the one that signals it *)
CvWaiters == 1..(CvWorkers - 1)
CvNotifier == CvWorkers

CvWord(index) == IF index = prevOffset THEN "prev" ELSE "seq"

(* `(val + 1) | 0`: the increment wraps to a signed 32-bit integer *)
Inc32(v) == IF v = 2147483647 THEN -2147483647 - 1 ELSE v + 1

HasLock(w) == IndexOf(held[w], "mux") >= 0

(* the waiters that are past mux.unlock() and not yet past the wait *)
ReleasedWaiters == {x \in DOMAIN pc : pc[x] \in {"cv_atomicWait", "cv_sleep"}}

(* an Address method throws 'OUT OF BOUNDS!' *)
CvThrow(w) ==
    /\ pc' = [pc EXCEPT ![w] = "cv_thrown"]
    /\ timeout' = [timeout EXCEPT ![w] = Infinity]
    /\ val' = [val EXCEPT ![w] = 0]
    /\ caller' = [caller EXCEPT ![w] = "user"]

(* wait / waitAsync return r *)
CvReturn(w, r) ==
    /\ pc' = [pc EXCEPT ![w] = IF r THEN "holding" ELSE "idle"]
    /\ result' = [result EXCEPT ![w] = r]
    /\ timeout' = [timeout EXCEPT ![w] = Infinity]
    /\ val' = [val EXCEPT ![w] = 0]
    /\ caller' = [caller EXCEPT ![w] = "user"]
    /\ hist' = hist \ {w}

(* wait(mux, t) / waitAsync(mux, t) entry: atomicLoad(this.valOffset) *)
cvWait(w, t, variant) ==
    /\ pc[w] = "holding"
    /\ w \in CvWaiters
    /\ val' = [val EXCEPT ![w] = mem["seq"]]
    /\ timeout' = [timeout EXCEPT ![w] = t]
    /\ caller' = [caller EXCEPT ![w] = variant]
    /\ pc' = [pc EXCEPT ![w] = "cv_store"]
    /\ hist' = hist \ {w}
    /\ UNCHANGED <<mem, waiters, held, result>>
    /\ UNCHANGED thrVars

(* atomicStore(this.prevOffset, val): replacement prevOffset, index val *)
cvStore(w) ==
    /\ pc[w] = "cv_store"
    /\ IF val[w] >= CvCount
       THEN /\ CvThrow(w)
            /\ UNCHANGED mem
       ELSE /\ mem' = [mem EXCEPT ![CvWord(val[w])] = prevOffset]
            /\ pc' = [pc EXCEPT ![w] = "cv_unlock"]
            /\ UNCHANGED <<timeout, val, caller>>
    /\ UNCHANGED <<waiters, held, result, hist>>
    /\ UNCHANGED thrVars

(* mux.unlock() *)
cvUnlock(w) ==
    /\ pc[w] = "cv_unlock"
    /\ UnlockCall(w, caller[w])
    /\ UNCHANGED <<timeout, val, result, hist>>
    /\ UNCHANGED thrVars

(* wait: atomicWait(val, this.valOffset, timeout), i.e. value val, timeout
   valOffset, index timeout.
   waitAsync: atomicWaitAsync(val, timeout, this.valOffset) *)
cvAtomicWait(w) ==
    /\ pc[w] = "cv_atomicWait"
    /\ LET index == IF caller[w] = "cv_wait" THEN timeout[w] ELSE valOffset
           limit == IF caller[w] = "cv_wait" THEN valOffset ELSE timeout[w]
       IN  IF index >= CvCount
           THEN /\ CvThrow(w)
                /\ UNCHANGED <<waiters, result, hist>>
           ELSE IF mem[CvWord(index)] # val[w]
           THEN /\ pc' = [pc EXCEPT ![w] = "cv_lock"]
                /\ UNCHANGED <<waiters, result, timeout, val, caller, hist>>
           ELSE IF limit = 0
           THEN /\ CvReturn(w, FALSE)
                /\ UNCHANGED waiters
           ELSE /\ pc' = [pc EXCEPT ![w] = "cv_sleep"]
                /\ waiters' = [waiters EXCEPT ![CvWord(index)] = Append(@, w)]
                /\ UNCHANGED <<result, timeout, val, caller, hist>>
    /\ UNCHANGED <<mem, held>>
    /\ UNCHANGED thrVars

(* the wait runs out: 'timed-out', return false *)
cvTimedOut(w) ==
    /\ pc[w] = "cv_sleep"
    /\ caller[w] = "cv_wait" \/ IsFinite(timeout[w])
    /\ waiters' = [x \in Words |-> RemoveFrom(waiters[x], w)]
    /\ CvReturn(w, FALSE)
    /\ UNCHANGED <<mem, held>>
    /\ UNCHANGED thrVars

(* `if (!Number.isFinite(timeout)) timeout -= elapsed` leaves Infinity;
   then mux.lock(timeout) / mux.lockAsync(timeout) *)
cvLock(w) ==
    /\ pc[w] = "cv_lock"
    /\ LockCall(w, timeout[w], caller[w])
    /\ UNCHANGED <<val, hist>>
    /\ UNCHANGED thrVars

(* wait: `return true`; waitAsync: `return await mux.lockAsync(timeout)` *)
cvRet(w) ==
    /\ pc[w] = "cv_ret"
    /\ CvReturn(w, IF caller[w] = "cv_wait" THEN TRUE ELSE result[w])
    /\ UNCHANGED <<mem, waiters, held>>
    /\ UNCHANGED thrVars

(* the exception reaches the caller of wait / waitAsync *)
cvCatch(w) ==
    /\ pc[w] = "cv_thrown"
    /\ pc' = [pc EXCEPT ![w] = IF HasLock(w) THEN "holding" ELSE "idle"]
    /\ hist' = hist \ {w}
    /\ UNCHANGED <<mem, waiters, timeout, val, held, caller, result>>
    /\ UNCHANGED thrVars

(* notify(count) entry: atomicLoad(this.prevOffset) *)
cvNotify(w, count) ==
    /\ pc[w] = "holding"
    /\ w = CvNotifier
    /\ val' = [val EXCEPT ![w] = mem["prev"]]
    /\ timeout' = [timeout EXCEPT ![w] = count]
    /\ pc' = [pc EXCEPT ![w] = "cvn_store"]
    /\ UNCHANGED <<mem, waiters, held, caller, result, hist>>
    /\ UNCHANGED thrVars

(* atomicStore((val + 1) | 0, this.valOffset) *)
cvNotifyStore(w) ==
    /\ pc[w] = "cvn_store"
    /\ mem' = [mem EXCEPT !["seq"] = Inc32(val[w])]
    /\ pc' = [pc EXCEPT ![w] = "cvn_notify"]
    /\ UNCHANGED <<waiters, timeout, val, held, caller, result, hist>>
    /\ UNCHANGED thrVars

(* atomicNotify(count, this.valOffset) *)
cvNotifyWake(w) ==
    /\ pc[w] = "cvn_notify"
    /\ waiters' = NotifyWaiters("seq", timeout[w])
    /\ pc' = [NotifyPc("seq", timeout[w]) EXCEPT ![w] = "holding"]
    /\ hist' = IF timeout[w] >= Cardinality(ReleasedWaiters)
               THEN hist \cup {x \in ReleasedWaiters : timeout[x] = Infinity}
               ELSE hist
    /\ timeout' = [timeout EXCEPT ![w] = Infinity]
    /\ val' = [val EXCEPT ![w] = 0]
    /\ UNCHANGED <<mem, held, caller, result>>
    /\ UNCHANGED thrVars

InitCondVar ==
    /\ PrimInit(CvWorkers)
    /\ hist = {}

NextCondVar ==
    \E w \in 1..CvWorkers :
        \/ lock(w, Infinity)
        \/ lockContend(w)
        \/ lockWait(w)
        \/ lockTimedOut(w)
        \/ lockRetry(w)
        \/ unlock(w)
        \/ unlockStore(w)
        \/ unlockNotify(w)
        \/ \E t \in Timeouts, variant \in {"cv_wait", "cv_waitAsync"} : cvWait(w, t, variant)
        \/ cvStore(w)
        \/ cvUnlock(w)
        \/ cvAtomicWait(w)
        \/ cvTimedOut(w)
        \/ cvLock(w)
        \/ cvRet(w)
        \/ cvCatch(w)
        \/ \E count \in {1, Infinity} : cvNotify(w, count)
        \/ cvNotifyStore(w)
        \/ cvNotifyWake(w)

SpecCondVar == InitCondVar /\ [][NextCondVar]_vars

(* C6: a waiter with infinite timeout for which a covering notify was issued
   after it released mux has not lost it: its call did not throw, and it is
   not asleep waiting for a further notify *)
C6_NoLostNotify ==
    \A w \in hist : pc[w] \notin {"cv_thrown", "cv_sleep"}

(* C7: when wait / waitAsync is about to return true, the caller holds mux *)
C7_HoldsMuxOnTrue ==
    \A w \in DOMAIN pc :
        (pc[w] = "cv_ret" /\ (caller[w] = "cv_wait" \/ result[w])) => HasLock(w)

(* C34: in wait and in waitAsync alike, the step after mux.unlock() is the
   wait on the seq word for the value recorded at entry with the timeout the
   caller gave: the call goes on to re-lock mux if seq has changed, returns
   false if the timeout is 0, and else sleeps on seq *)
C34_SameWaitBothVariants ==
    [][\A w \in DOMAIN pc :
          (pc[w] = "cv_atomicWait" /\ pc'[w] # "cv_atomicWait") =>
              IF mem["seq"] # val[w]
              THEN pc'[w] = "cv_lock"
              ELSE IF timeout[w] = 0
              THEN pc'[w] = "idle" /\ ~result'[w]
              ELSE /\ pc'[w] = "cv_sleep"
                   /\ w \in SeqRange(waiters'["seq"])]_vars

-----------------------------------------------------------------------------
(* Thread: one parent-side Thread object and its worker.  A message is a
   record of the properties it carries (`__system: true` is left out); the
   two message ports deliver in order.  An onmessage invocation of the worker
   runs up to its first `await` in one step and the rest when the awaited
   promise settles; invocations suspended at an `await` interleave.
     thread  = [workQueue, pending, incWorkId, killed]
     worker  = [messagesProcessing, oninit, promises, awaiting, closing,
                close, attempt]
               oninit: "none", "pending" (its promise is not settled), "done",
                       "threw"
               close: where the sequence started by self.close() stands:
                      "none", "delay" (the 5 ms timer), "poll" (a 100 ms
                      timer), "onclose" (awaiting its promise), "closed",
                      "terminated" (by worker.terminate() of the parent)
               promises: ids whose handler returned a promise not yet settled
               awaiting: messages whose invocation is suspended at an `await`
     promise = [spawn, sent]; sent[id] = [kind, arg, settled], settled being
               the list of the calls of res / rej of that promise
     hist    = [completed, failed, acks]: the ids whose onwork / onshare
               handler has finished, those among them whose handler threw or
               whose promise rejected, and per id the number of messages with
               a __shared property posted by its invocation;
               closeHandler: the number of calls of the closeHandler;
               onclose: one record [messagesProcessing, attempt] per call of
               the worker's onclose, oncloseDone: the calls that finished;
               events, closes, kills: the calls of sendEvent, close and kill;
               dispatched: the events given to onevent, handled: the events
               whose answer reached the onEventHandler, handledKilled: those
               that reached it when killed was set; idleFiredAt: the values
               of messagesProcessing at which an idle timer fired *)

(* `let res: any = undefined` *)
Undefined == "undefined"

(* e.data.transfer of a message without that property: no request id *)
UndefinedId == -1
Err == "error"

(* the handler the worker script registers for work *)
OnWork(work) == work * work

(* what a user handler does when called: returns a plain value, returns a
   promise, or throws *)
Returns == {"value", "promise", "throw"}

PromiseLike_Never(p) == FALSE

(* promiseLike(p) *)
PromiseLike(p) == p = "promise"

Has(m, k) == k \in DOMAIN m

IsShare(m) == Has(m, "share") /\ Has(m, "shareId")
IsWork(m) == Has(m, "workId") /\ Has(m, "work")
IsInit(m) == Has(m, "threadId") /\ Has(m, "init")

ReqId(m) == IF IsShare(m) THEN m.shareId ELSE m.workId

Reply_NoWorkId(m, how) ==
    IF IsShare(m)
    THEN IF how = "ok"
         THEN [__shared |-> m.shareId]
         ELSE [threadId |-> 1, __shared |-> UndefinedId, rej |-> Err]
    ELSE IF how = "ok"
         THEN [threadId |-> 1, workId |-> m.workId, res |-> OnWork(m.work)]
         ELSE [threadId |-> 1, workId |-> UndefinedId, rej |-> Err]

(* the message the invocation for m posts once its handler finished: the
   replies of the try block, and those of the catch block *)
Reply(m, how) ==
    IF IsShare(m)
    THEN IF how = "ok"
         THEN [__shared |-> m.shareId]
         ELSE [threadId |-> 1, __shared |-> UndefinedId, rej |-> Err]
    ELSE IF how = "ok"
         THEN [threadId |-> 1, workId |-> m.workId, res |-> OnWork(m.work)]
         ELSE [threadId |-> 1, workId |-> m.workId, rej |-> Err]

(* the invocation for m posts its reply and ends *)
Finish(m, how) ==
    /\ toParent' = Append(toParent, Reply(m, how))
    /\ hist' = [hist EXCEPT !.completed = @ \cup {ReqId(m)},
                            !.failed = IF how = "err" THEN @ \cup {ReqId(m)} ELSE @,
                            !.acks[ReqId(m)] = IF IsShare(m) THEN @ + 1 ELSE @]

(* nextWorkId(): threadId + ' ' + incWorkId++ (or a fresh UUID) *)
nextWorkId == thread.incWorkId

CanRequest ==
    /\ promise.spawn = "resolved"
    /\ ~thread.killed
    /\ thread.incWorkId < MaxRequests

Request(kind, arg, message) ==
    /\ thread' = [thread EXCEPT !.pending = @ + 1,
                                !.workQueue = @ \cup {nextWorkId},
                                !.incWorkId = @ + 1]
    /\ promise' = [promise EXCEPT !.sent = @ @@ (nextWorkId :>
                       [kind |-> kind, arg |-> arg, settled |-> <<>>])]
    /\ toWorker' = Append(toWorker, message)
    /\ UNCHANGED <<toParent, worker>>
    /\ UNCHANGED <<primVars, pool, call>>

(* Thread.sendWork(work) *)
sendWork(work) ==
    /\ CanRequest
    /\ Request("work", work, [workId |-> nextWorkId, work |-> work])

(* Thread.share(item) *)
share(item) ==
    /\ CanRequest
    /\ Request("share", item, [shareId |-> nextWorkId, share |-> item])

maxAttempts == 10

(* neither the worker's own close() nor worker.terminate() has ended it *)
Running == worker.close \notin {"closed", "terminated"}

(* self.close() called while a close sequence is under way returns at once;
   otherwise it sets closing, posts __close and starts the 5 ms timer *)
ClosePosts == IF worker.closing THEN <<>> ELSE <<[__close |-> TRUE]>>

SelfClose(wk) ==
    IF wk.closing THEN wk ELSE [wk EXCEPT !.closing = TRUE, !.close = "delay"]

KeepPolling_IgnoreInFlight(processing, attempt) == FALSE

(* the loop test `messagesProcessing > 0 && attempt++ < maxAttempts` *)
KeepPolling(processing, attempt) == processing > 0 /\ attempt < maxAttempts

(* the 5 ms timer or a 100 ms timer of the close sequence fires: poll again,
   or leave the loop and call onclose; without a promise to await the
   finally follows at once and the original close() ends the worker *)
closeTimer(ret) ==
    /\ worker.close \in {"delay", "poll"}
    /\ LET tested == IF worker.messagesProcessing > 0
                     THEN worker.attempt + 1 ELSE worker.attempt
       IN  IF KeepPolling(worker.messagesProcessing, worker.attempt)
           THEN /\ ret = "value"
                /\ worker' = [worker EXCEPT !.close = "poll", !.attempt = tested]
                /\ UNCHANGED hist
           ELSE /\ worker' = [worker EXCEPT
                         !.close = IF PromiseLike(ret) THEN "onclose" ELSE "closed",
                         !.attempt = tested]
                /\ hist' = [hist EXCEPT
                         !.onclose = Append(@, [messagesProcessing |->
                                         worker.messagesProcessing,
                                         attempt |-> worker.attempt]),
                         !.oncloseDone = IF PromiseLike(ret) THEN @ ELSE @ + 1]
    /\ UNCHANGED <<toWorker, toParent, thread, promise>>
    /\ UNCHANGED <<mem, waiters, pc, timeout, val, held, caller, result, pool, call>>

(* the promise onclose returned settles; the finally ends the worker *)
oncloseSettles ==
    /\ worker.close = "onclose"
    /\ worker' = [worker EXCEPT !.close = "closed"]
    /\ hist' = [hist EXCEPT !.oncloseDone = @ + 1]
    /\ UNCHANGED <<toWorker, toParent, thread, promise>>
    /\ UNCHANGED <<mem, waiters, pc, timeout, val, held, caller, result, pool, call>>

NoTimer == 0

(* setTimeout returns an id no armed timer has *)
NewTimer(wk) ==
    CHOOSE t \in 1..(Cardinality(wk.timers) + 2) :
        t \notin wk.timers \cup {wk.threadIdleTimeout}

Begin_KeepTimer(wk) ==
    [wk EXCEPT !.messagesProcessing = @ + 1]

(* the head of self.onmessage: the idle timer threadIdleTimeout refers to
   is cleared, then ++messagesProcessing *)
Begin(wk) ==
    [wk EXCEPT !.timers = @ \ {wk.threadIdleTimeout},
               !.threadIdleTimeout = NoTimer,
               !.messagesProcessing = @ + 1]

(* the finally of self.onmessage: --messagesProcessing, and the idle timer
   is armed when that was the last message in flight *)
Finally(wk) ==
    LET left == wk.messagesProcessing - 1
    IN  IF left = 0 /\ wk.threadIdle > 0 /\ wk.threadIdle # Infinity
        THEN [wk EXCEPT !.messagesProcessing = left,
                        !.threadIdleTimeout = NewTimer(wk),
                        !.timers = @ \cup {NewTimer(wk)}]
        ELSE [wk EXCEPT !.messagesProcessing = left]

(* a message that is not a __system object: a custom event *)
IsCustom(m) == Has(m, "event")

(* self.onmessage up to its first await, or to its end *)
workerOnMessage(ret) ==
    /\ toWorker # <<>>
    /\ Running
    /\ LET m == Head(toWorker)
       IN  /\ toWorker' = Tail(toWorker)
           /\ IF IsShare(m) \/ IsWork(m)
              THEN IF ret = "throw"
                   THEN /\ Finish(m, "err")
                        /\ worker' = Finally(Begin(worker))
                   ELSE IF PromiseLike(ret)
                   THEN /\ worker' = [Begin(worker) EXCEPT
                                 !.promises = @ \cup {ReqId(m)},
                                 !.awaiting = @ \cup {m}]
                        /\ UNCHANGED <<toParent, hist>>
                   ELSE IF ret = "promise"
                   THEN /\ toParent' = Append(toParent, Reply(m, "ok"))
                        /\ hist' = [hist EXCEPT !.acks[ReqId(m)] =
                                       IF IsShare(m) THEN @ + 1 ELSE @]
                        /\ worker' = [Finally(Begin(worker)) EXCEPT
                                         !.promises = @ \cup {ReqId(m)}]
                   ELSE /\ Finish(m, "ok")
                        /\ worker' = Finally(Begin(worker))
              ELSE IF IsInit(m)
              THEN IF ret = "throw"
                   THEN (* catch: __initd false with the error, then self.close() *)
                        /\ toParent' = Append(toParent,
                               [threadId |-> 1, __initd |-> FALSE, __error |-> Err])
                               \o ClosePosts
                        /\ worker' = Finally(SelfClose(
                                         [Begin(worker) EXCEPT !.oninit = "threw"]))
                        /\ UNCHANGED hist
                   ELSE (* the result of oninit is dropped, res stays undefined *)
                        /\ worker' = Finally([Begin(worker) EXCEPT
                               !.oninit = IF ret = "promise" THEN "pending" ELSE "done",
                               !.threadIdle = IF m.closeWhenIdle # Infinity
                                              THEN m.closeWhenIdle ELSE @])
                        /\ IF PromiseLike(Undefined)
                           THEN UNCHANGED toParent
                           ELSE toParent' = Append(toParent, [__initd |-> TRUE])
                        /\ UNCHANGED hist
              ELSE IF Has(m, "__close")
              THEN (* self.close() *)
                   /\ ret = "value"
                   /\ toParent' = toParent \o ClosePosts
                   /\ worker' = Finally(SelfClose(Begin(worker)))
                   /\ UNCHANGED hist
              ELSE (* a custom event goes to onevent, which posts its answer
                      when it is done; an error goes to sendError *)
                   /\ IsCustom(m)
                   /\ hist' = [hist EXCEPT !.dispatched = @ \cup {m.event}]
                   /\ IF ret = "throw"
                      THEN /\ toParent' = Append(toParent, [__error |-> Err])
                           /\ worker' = Finally(Begin(worker))
                      ELSE IF PromiseLike(ret)
                      THEN /\ worker' = [Begin(worker) EXCEPT
                                            !.events = @ \cup {m.event}]
                           /\ UNCHANGED toParent
                      ELSE /\ toParent' = Append(toParent, [event |-> m.event])
                           /\ worker' = Finally(Begin(worker))
    /\ UNCHANGED <<thread, promise>>
    /\ UNCHANGED <<mem, waiters, pc, timeout, val, held, caller, result, pool, call>>

(* the promise onevent returned settles and the invocation resumes *)
oneventSettles(n, how) ==
    /\ n \in worker.events
    /\ Running
    /\ worker' = Finally([worker EXCEPT !.events = @ \ {n}])
    /\ toParent' = Append(toParent,
           IF how = "ok" THEN [event |-> n] ELSE [__error |-> Err])
    /\ UNCHANGED <<toWorker, thread, promise, hist>>
    /\ UNCHANGED <<mem, waiters, pc, timeout, val, held, caller, result, pool, call>>

(* the idle timer fires: self.close() *)
idleTimerFires(t) ==
    /\ t \in worker.timers
    /\ Running
    /\ toParent' = toParent \o ClosePosts
    /\ worker' = SelfClose([worker EXCEPT !.timers = @ \ {t}])
    /\ hist' = [hist EXCEPT !.idleFiredAt = @ \cup {worker.messagesProcessing}]
    /\ UNCHANGED <<toWorker, thread, promise>>
    /\ UNCHANGED <<mem, waiters, pc, timeout, val, held, caller, result, pool, call>>

(* the promise a work / share handler returned settles; the invocation
   awaiting it, if any, resumes *)
handlerSettles(id, how) ==
    /\ id \in worker.promises
    /\ Running
    /\ IF \E m \in worker.awaiting : ReqId(m) = id
       THEN LET m == CHOOSE x \in worker.awaiting : ReqId(x) = id
            IN  /\ Finish(m, how)
                /\ worker' = Finally([worker EXCEPT
                         !.promises = @ \ {id},
                         !.awaiting = @ \ {m}])
       ELSE /\ worker' = [worker EXCEPT !.promises = @ \ {id}]
            /\ hist' = [hist EXCEPT !.completed = @ \cup {id},
                                    !.failed = IF how = "err" THEN @ \cup {id} ELSE @]
            /\ UNCHANGED toParent
    /\ UNCHANGED <<toWorker, thread, promise>>
    /\ UNCHANGED <<mem, waiters, pc, timeout, val, held, caller, result, pool, call>>

(* the promise an async oninit returned settles *)
oninitSettles ==
    /\ worker.oninit = "pending"
    /\ Running
    /\ worker' = [worker EXCEPT !.oninit = "done"]
    /\ UNCHANGED <<toWorker, toParent, thread, promise>>
    /\ UNCHANGED <<primVars, pool, call>>

WorkQueueEntry_Oldest(m) ==
    CHOOSE id \in thread.workQueue : \A x \in thread.workQueue : id <= x

(* this.workQueue[e.data.workId] *)
WorkQueueEntry(m) == m.workId

(* res / rej of the promise of request id is called *)
Settle(id, how, by, v) ==
    promise' = [promise EXCEPT !.sent[id].settled =
                   Append(@, [how |-> how, by |-> by, val |-> v])]

(* closeThread() *)
Stopped == "Thread stopped running!"

Outstanding_FirstOnly ==
    IF thread.workQueue = {} THEN {}
    ELSE {CHOOSE id \in thread.workQueue : \A x \in thread.workQueue : id <= x}

(* Object.values(this.workQueue) *)
Outstanding == thread.workQueue

closeThread(byKill) ==
    /\ thread' = [thread EXCEPT !.killed = TRUE]
    /\ promise' = [promise EXCEPT !.sent = [id \in DOMAIN @ |->
                       IF id \in Outstanding
                       THEN [@[id] EXCEPT !.settled = Append(@,
                                [how |-> "rej", by |-> UndefinedId, val |-> Stopped])]
                       ELSE @[id]]]
    /\ hist' = [hist EXCEPT !.closeHandler = @ + 1,
                            !.kills = IF byKill THEN @ + 1 ELSE @]

(* the handler took the head of the queue and leaves the worker alone *)
Delivered ==
    /\ toParent' = Tail(toParent)
    /\ UNCHANGED <<toWorker, worker>>

(* worker.terminate(): the worker's tasks are discarded, its script is
   aborted and the message queue of the parent's port is emptied *)
terminate ==
    /\ worker' = [worker EXCEPT !.close = "terminated"]
    /\ toWorker' = <<>>
    /\ toParent' = <<>>

(* the branches of the parent's handler after __error and __close *)
ParentDispatch(m) ==
    IF Has(m, "workId") /\ (Has(m, "res") \/ Has(m, "rej"))
    THEN /\ Delivered
         /\ IF m.workId \notin thread.workQueue
            THEN UNCHANGED <<thread, promise>>
            ELSE /\ IF Has(m, "res")
                    THEN Settle(WorkQueueEntry(m), "res", m.workId, m.res)
                    ELSE Settle(WorkQueueEntry(m), "rej", m.workId, m.rej)
                 /\ thread' = [thread EXCEPT !.workQueue = @ \ {m.workId},
                                             !.pending = @ - 1]
    ELSE IF Has(m, "__initd")
    THEN IF m.__initd
         THEN /\ promise' = [promise EXCEPT !.spawn = "resolved"]
              /\ UNCHANGED thread
              /\ Delivered
         ELSE /\ promise' = [promise EXCEPT !.spawn = "rejected"]
              /\ thread' = [thread EXCEPT !.killed = TRUE]
              /\ terminate
    ELSE IF Has(m, "__shared")
    THEN /\ Delivered
         /\ IF m.__shared \notin thread.workQueue
            THEN (* destructuring workQueue[undefined] throws *)
                 UNCHANGED <<thread, promise>>
            ELSE /\ Settle(m.__shared, "res", m.__shared, "null")
                 /\ thread' = [thread EXCEPT !.workQueue = @ \ {m.__shared},
                                             !.pending = @ - 1]
    ELSE UNCHANGED <<thread, promise>> /\ Delivered

handler_UnlessKilled(m) ==
    /\ hist' = [hist EXCEPT !.handled = IF thread.killed THEN @ ELSE @ \cup {m.event}]
    /\ UNCHANGED <<thread, promise>>
    /\ Delivered

(* a message that is not a __system object goes to the onEventHandler,
   whatever killed says *)
handler(m) ==
    /\ hist' = [hist EXCEPT !.handled = @ \cup {m.event},
                 !.handledKilled = IF thread.killed THEN @ \cup {m.event} ELSE @]
    /\ UNCHANGED <<thread, promise>>
    /\ Delivered

(* worker.onmessage of the parent *)
parentOnMessage ==
    /\ toParent # <<>>
    /\ LET m == Head(toParent)
       IN  IF Has(m, "__error")
           THEN UNCHANGED <<thread, promise, hist>> /\ Delivered
           ELSE IF Has(m, "__close")
           THEN closeThread(FALSE) /\ Delivered
           ELSE IF IsCustom(m)
           THEN handler(m)
           ELSE UNCHANGED hist /\ ParentDispatch(m)
    /\ UNCHANGED <<mem, waiters, pc, timeout, val, held, caller, result, pool, call>>

(* Thread.sendEvent(event) *)
sendEvent ==
    /\ promise.spawn = "resolved"
    /\ ~thread.killed
    /\ hist.events < MaxEvents
    /\ toWorker' = Append(toWorker, [event |-> hist.events + 1])
    /\ hist' = [hist EXCEPT !.events = @ + 1]
    /\ UNCHANGED <<toParent, thread, worker, promise>>
    /\ UNCHANGED <<mem, waiters, pc, timeout, val, held, caller, result, pool, call>>

(* Thread.close() *)
close ==
    /\ promise.spawn = "resolved"
    /\ hist.closes < MaxCloses
    /\ thread' = [thread EXCEPT !.killed = TRUE]
    /\ toWorker' = Append(toWorker, [__close |-> TRUE])
    /\ hist' = [hist EXCEPT !.closes = @ + 1]
    /\ UNCHANGED <<toParent, worker, promise>>
    /\ UNCHANGED <<mem, waiters, pc, timeout, val, held, caller, result, pool, call>>

(* Thread.kill() *)
kill ==
    /\ promise.spawn = "resolved"
    /\ hist.kills < MaxKills
    /\ terminate
    /\ closeThread(TRUE)
    /\ UNCHANGED <<mem, waiters, pc, timeout, val, held, caller, result, pool, call>>

(* Thread.spawn: the constructor has posted the init message *)
Spawned(closeWhenIdle) ==
    /\ mem = <<>> /\ waiters = <<>> /\ pc = <<>> /\ timeout = <<>>
    /\ val = <<>> /\ held = <<>> /\ caller = <<>> /\ result = <<>>
    /\ hist = [completed |-> {}, failed |-> {},
               acks |-> [id \in 0..(MaxRequests - 1) |-> 0],
               closeHandler |-> 0, onclose |-> <<>>, oncloseDone |-> 0,
               events |-> 0, dispatched |-> {}, handled |-> {},
               handledKilled |-> {}, closes |-> 0, kills |-> 0,
               idleFiredAt |-> {}]
    /\ toWorker = <<[threadId |-> 1, init |-> 0, closeWhenIdle |-> closeWhenIdle]>>
    /\ toParent = <<>>
    /\ thread = [workQueue |-> {}, pending |-> 0, incWorkId |-> 0, killed |-> FALSE]
    /\ worker = [messagesProcessing |-> 0, oninit |-> "none",
                 promises |-> {}, awaiting |-> {}, events |-> {},
                 closing |-> FALSE, close |-> "none", attempt |-> 0,
                 threadIdle |-> 0, threadIdleTimeout |-> NoTimer, timers |-> {}]
    /\ promise = [spawn |-> "pending", sent |-> <<>>]
    /\ pool = <<>>
    /\ call = <<>>

InitThread == Spawned(Infinity)

(* the protocol does not look into a shared item *)
Items == {"item"}

NextThread ==
    \/ \E work \in 1..MaxWork : sendWork(work)
    \/ \E item \in Items : share(item)
    \/ \E ret \in Returns : workerOnMessage(ret)
    \/ \E id \in 0..(MaxRequests - 1), how \in {"ok", "err"} : handlerSettles(id, how)
    \/ oninitSettles
    \/ \E ret \in Returns : closeTimer(ret)
    \/ oncloseSettles
    \/ parentOnMessage

SpecThread == InitThread /\ [][NextThread]_vars

(* a client that also kills the thread *)
NextThreadKill ==
    \/ NextThread
    \/ kill

SpecThreadKill == InitThread /\ [][NextThreadKill]_vars

(* a client that sends custom events and closes the thread *)
NextThreadClose ==
    \/ sendEvent
    \/ close
    \/ \E ret \in Returns : workerOnMessage(ret)
    \/ \E n \in 1..MaxEvents, how \in {"ok", "err"} : oneventSettles(n, how)
    \/ oninitSettles
    \/ \E ret \in Returns : closeTimer(ret)
    \/ oncloseSettles
    \/ parentOnMessage

SpecThreadClose ==
    /\ InitThread
    /\ [][NextThreadClose]_vars
    /\ WF_vars(\E ret \in Returns : workerOnMessage(ret))
    /\ WF_vars(parentOnMessage)

(* a client that sends custom events, closes the thread and kills it *)
NextThreadCloseKill ==
    \/ NextThreadClose
    \/ kill

SpecThreadCloseKill == InitThread /\ [][NextThreadCloseKill]_vars

(* a thread spawned with a finite closeWhenIdle *)
InitThreadIdle == Spawned(IdleMs)

NextThreadIdle ==
    \/ sendEvent
    \/ \E ret \in Returns : workerOnMessage(ret)
    \/ \E n \in 1..MaxEvents, how \in {"ok", "err"} : oneventSettles(n, how)
    \/ \E t \in worker.timers : idleTimerFires(t)
    \/ oninitSettles
    \/ \E ret \in Returns : closeTimer(ret)
    \/ oncloseSettles
    \/ parentOnMessage

SpecThreadIdle == InitThreadIdle /\ [][NextThreadIdle]_vars

Sent(kind) == {id \in DOMAIN promise.sent : promise.sent[id].kind = kind}

(* C8: the promise of every sendWork request is settled exactly once, by the
   reply that carries its own workId and with that reply's value; as long as
   the request is outstanding it is not settled *)
C8_WorkCorrelation ==
    \A id \in Sent("work") :
        LET p == promise.sent[id]
        IN  /\ Len(p.settled) = IF id \in thread.workQueue THEN 0 ELSE 1
            /\ \A i \in 1..Len(p.settled) :
                 /\ p.settled[i].by = id
                 /\ p.settled[i].how = "res" => p.settled[i].val = OnWork(p.arg)
                 /\ p.settled[i].how = "rej" => p.settled[i].val = Err

(* a later request was settled while an earlier one is still outstanding, and
   one promise was resolved and one rejected *)
C8_Witness ==
    \E a \in Sent("work"), b \in Sent("work"), c \in Sent("work") :
        /\ a < b
        /\ a \in thread.workQueue
        /\ Len(promise.sent[b].settled) = 1 /\ promise.sent[b].settled[1].how = "res"
        /\ Len(promise.sent[c].settled) = 1 /\ promise.sent[c].settled[1].how = "rej"

(* C9: the promise of Thread.spawn is resolved only when oninit has completed,
   and no work / share invocation runs in the worker before that *)
C9_SpawnAfterOninit ==
    /\ promise.spawn = "resolved" => worker.oninit = "done"
    /\ (worker.awaiting # {} \/ hist.completed # {}) => worker.oninit = "done"

(* C10: the promise of a share request is resolved only after its onshare
   handler has finished, and its invocation posts exactly one message with a
   __shared property: none before onshare has finished, one afterwards *)
C10_ShareAck ==
    \A id \in Sent("share") :
        /\ hist.acks[id] = IF id \in hist.completed THEN 1 ELSE 0
        /\ promise.sent[id].settled # <<>> =>
              /\ id \in hist.completed
              /\ Len(promise.sent[id].settled) = 1
              /\ promise.sent[id].settled[1].how = "res"

(* a share whose onshare returned a promise was acknowledged and resolved
   while the invocation of another share is still suspended *)
C10_Witness ==
    \E a \in Sent("share"), b \in Sent("share") :
        /\ a < b
        /\ \E m \in worker.awaiting : IsShare(m) /\ m.shareId = a
        /\ promise.sent[b].settled # <<>>
        /\ hist.acks[b] = 1

InFlight(q, msg) == Cardinality({i \in 1..Len(q) : q[i] = msg})

(* C11: when onwork threw or its promise rejected, exactly one reply with
   rej under the same workId is sent; once the parent has handled it the
   sendWork promise is rejected by it, the request record is removed and
   pending was decremented by one (pending counts the records) *)
C11_WorkRejected ==
    /\ thread.pending = Cardinality(thread.workQueue)
    /\ \A id \in Sent("work") \cap hist.failed :
        LET p == promise.sent[id]
            reply == [threadId |-> 1, workId |-> id, rej |-> Err]
        IN  IF id \in thread.workQueue
            THEN p.settled = <<>> /\ InFlight(toParent, reply) = 1
            ELSE /\ p.settled = <<[how |-> "rej", by |-> id, val |-> Err]>>
                 /\ InFlight(toParent, reply) = 0

(* one sendWork promise was rejected because onwork threw, while the reply
   for another whose promise rejected is still on its way *)
C11_Witness ==
    \E a \in Sent("work") \cap hist.failed, b \in Sent("work") \cap hist.failed :
        /\ a # b
        /\ a \notin thread.workQueue
        /\ promise.sent[a].settled # <<>>
        /\ b \in thread.workQueue
        /\ thread.pending = 1

(* C12: when oninit threw, the worker replies with __initd false, and once
   the parent has handled that reply the promise of Thread.spawn is rejected *)
C12_InitFailureRejectsSpawn ==
    (/\ worker.oninit = "threw"
     /\ \A i \in 1..Len(toParent) : ~Has(toParent[i], "__initd"))
        => promise.spawn = "rejected"

(* C13: when onshare threw or its promise rejected, the error comes back
   under the shareId of the request: once the parent has handled every
   reply, the share promise is rejected with the error and the request
   record is removed *)
C13_ShareRejected ==
    \A id \in Sent("share") \cap hist.failed :
        toParent = <<>> =>
            /\ promise.sent[id].settled # <<>>
            /\ Head(promise.sent[id].settled).how = "rej"
            /\ Head(promise.sent[id].settled).val = Err
            /\ id \notin thread.workQueue

(* C14: once kill() has run, the worker is terminated, every work and share
   promise that was outstanding is rejected with 'Thread stopped running!',
   no promise is left unsettled, and the closeHandler was invoked *)
C14_KillRejectsAll ==
    hist.kills > 0 =>
        /\ worker.close = "terminated"
        /\ thread.killed
        /\ hist.closeHandler >= 1
        /\ \A id \in DOMAIN promise.sent : promise.sent[id].settled # <<>>
        /\ \A id \in thread.workQueue :
               Head(promise.sent[id].settled) =
                   [how |-> "rej", by |-> UndefinedId, val |-> Stopped]

C14_Witness ==
    /\ hist.kills > 0
    /\ \E a \in Sent("work"), b \in Sent("share"), c \in DOMAIN promise.sent :
           /\ {a, b} \subseteq thread.workQueue
           /\ c \notin thread.workQueue
           /\ promise.sent[a].settled # <<>>
           /\ promise.sent[b].settled # <<>>
           /\ Head(promise.sent[c].settled).how = "res"

(* C15: the close sequence of the worker calls onclose only when no message
   is in flight any more or ten 100 ms polls have gone by; the worker ends
   only after onclose, and the promise it returned, has finished; further
   close calls start no second sequence: one __close notice, one onclose *)
C15_GracefulClose ==
    /\ Len(hist.onclose) <= 1
    /\ hist.closeHandler <= 1
    /\ \A i \in 1..Len(hist.onclose) :
           \/ hist.onclose[i].messagesProcessing = 0
           \/ hist.onclose[i].attempt = maxAttempts
    /\ worker.close = "onclose" => Len(hist.onclose) = 1 /\ hist.oncloseDone = 0
    /\ worker.close = "closed" => Len(hist.onclose) = 1 /\ hist.oncloseDone = 1
    /\ worker.close \in {"none", "delay", "poll"} => hist.onclose = <<>>
    /\ worker.closing <=> worker.close # "none"

C15_Witness ==
    /\ hist.closes = 2
    /\ \A i \in 1..Len(toWorker) : ~Has(toWorker[i], "__close")
    /\ worker.close = "closed"
    /\ hist.onclose[1].attempt = maxAttempts
    /\ hist.onclose[1].messagesProcessing > 0

Posted(n) == \E i \in 1..Len(toParent) : toParent[i] = [event |-> n]

(* C16: a custom event sent before Thread.close() is still given to the
   worker's onevent, and the message the worker posts while handling it
   still reaches the parent's onEventHandler, also when the parent has
   marked the thread closed by then *)
C16_EventSurvivesClose ==
    \A n \in 1..MaxEvents :
        /\ (hist.events >= n /\ hist.closes > 0) ~> (n \in hist.dispatched)
        /\ Posted(n) ~> (n \in hist.handled)

C16_Witness ==
    \E n \in 1..MaxEvents :
        /\ hist.closes > 0
        /\ hist.closeHandler = 1
        /\ n \in hist.dispatched
        /\ n \in hist.handledKilled

(* C17: with a finite closeWhenIdle at most one idle timer is armed, it is
   armed only while no message is in flight (a message clears it before its
   handler starts), and it never fires while a handler is in flight *)
C17_IdleTimer ==
    /\ Cardinality(worker.timers) <= 1
    /\ worker.timers # {} =>
           /\ worker.messagesProcessing = 0
           /\ worker.timers = {worker.threadIdleTimeout}
    /\ hist.idleFiredAt \subseteq {0}

C17_Witness ==
    /\ hist.idleFiredAt = {0}
    /\ hist.handled # {}
    /\ worker.events # {}
    /\ worker.timers = {}

(* C39: over the life of a Thread its closeHandler is called at most once,
   whatever calls of close() and kill() the client makes and whether or not
   the worker posts __close *)
C39_CloseHandlerOnce == hist.closeHandler <= 1

-----------------------------------------------------------------------------
(* ThreadPool: src/src/threadPool.ts

   pool = [threads, objs, lastLive, maxThreads, minThreads, closed, init,
           initEnded, ready, rejected, workers, awaits, calls]
     threads: the array this.threads, from index 0, Null in an empty slot;
     objs:    the ThreadInfo objects by identity: [live, indx, initPromise,
              thread]; a slot of threads holds the identity of one;
     init:    the loop variable i of initThreads, initEnded: initThreads
              has returned, ready / rejected: the promise of
              ThreadPool.spawn has resolved / rejected;
     workers: per worker spawned [status, obj, grown, ...]: "initialising",
              "live", "exited" or "failed" (its Thread.spawn rejected), the
              ThreadInfo its closeHandler closes over and whether that
              handler is the one of growPool; and of its Thread: pending,
              killed, workQueue, closeSent (Thread.close() was called);
     awaits:  the suspended `await Thread.spawn(...)` of initThreads, of the
              respawning close handler and of growPool: [kind, obj, target,
              worker], target the object whose .thread is assigned
   hist = [exits, respawned, typeErrors]: the exits of workers of slots
          below minThreads, the respawns that completed, and the handlers
          that ended with a TypeError on an empty slot *)

Null == 0

TypeError == -1

Slot(threads, k) == IF k \in DOMAIN threads THEN threads[k] ELSE Null

SetSlot(threads, k, v) ==
    [j \in DOMAIN threads \cup {k} |-> IF j = k THEN v ELSE threads[j]]

NewObj == Cardinality(DOMAIN pool.objs) + 1

NextWorker(p) == Cardinality(DOMAIN p.workers) + 1

NewWorker == NextWorker(pool)

(* this.threads.slice(0, this.lastLive + 1) *)
Prefix == {k \in DOMAIN pool.threads : k <= pool.lastLive}

(* size(): reading .live of an empty slot throws *)
size ==
    IF \E k \in Prefix : pool.threads[k] = Null
    THEN TypeError
    ELSE Cardinality({k \in Prefix : pool.objs[pool.threads[k]].live})

capacity == pool.maxThreads

(* selectThread: const canGrow = this.lastLive < this.maxThreads *)
CanGrow == pool.lastLive < pool.maxThreads

Owned ==
    {w \in DOMAIN pool.workers :
        pool.workers[w].status \in {"initialising", "live"}}

Live == {w \in DOMAIN pool.workers : pool.workers[w].status = "live"}

NoCall == 0

(* the answers of a scheduler strategy that are not a Thread *)
GrowAction == -2

PoolClosed == "Cannot send work, pool is closed!"

CouldNotFind == "Could not find an available thread"

InvalidOperation == "Invalid Operation! Thread is stopped!"

ShuttingDown == "Thread is shutting down!"

(* what the worker's onwork resolves with *)
WorkResult == "value"

(* a Thread of the pool and its worker: the fields the pool reads *)
Spawn(p, obj, grown) ==
    NextWorker(p) :> [status |-> "initialising", obj |-> obj, grown |-> grown,
                      pending |-> 0, killed |-> FALSE, workQueue |-> {},
                      closeSent |-> FALSE, claims |-> 0, releases |-> 0]

(* a call of ThreadPool.sendWork before it starts *)
NewCall ==
    [pc |-> "idle", i |-> 0, attempt |-> 0, thread |-> Null, log |-> <<>>,
     result |-> <<>>]

(* the close handler of initThreads, up to its await: the slot is marked
   dead and, unless the pool is closed, a new worker is spawned for it *)
Respawn(p, w) ==
    LET obj == p.workers[w].obj
        at == Slot(p.threads, p.objs[obj].indx)
    IN  IF at = Null
        THEN p
        ELSE IF p.closed
        THEN [p EXCEPT !.objs = [@ EXCEPT ![at].live = FALSE,
                                          ![at].thread = Null]]
        ELSE [p EXCEPT
                 !.objs = [@ EXCEPT ![at].live = FALSE, ![at].initPromise = TRUE],
                 !.workers = @ @@ Spawn(p, obj, FALSE),
                 !.awaits = @ \cup {[kind |-> "respawn", obj |-> obj,
                                     target |-> at, worker |-> NextWorker(p),
                                     call |-> NoCall]}]

(* the close handler of growPool: the last descriptor of the prefix takes
   the slot, and the prefix shrinks *)
Evict(p, w) ==
    LET obj == p.workers[w].obj
        idx == p.objs[obj].indx
        at == Slot(p.threads, idx)
        objs1 == IF p.closed
                 THEN [p.objs EXCEPT ![at].live = FALSE, ![at].thread = Null]
                 ELSE p.objs
        moved == Slot(p.threads, p.lastLive)
        threads1 == SetSlot(p.threads, idx, moved)
    IN  IF p.closed /\ at = Null
        THEN p
        ELSE IF moved = Null
        THEN [p EXCEPT !.objs = objs1, !.threads = threads1]
        ELSE [p EXCEPT
                 !.objs = [objs1 EXCEPT ![moved].indx = idx],
                 !.threads = SetSlot(threads1, p.lastLive, Null),
                 !.lastLive = @ - 1]

(* the closeHandler of the Thread of worker w *)
closeHandler(p, w) ==
    IF p.workers[w].grown THEN Evict(p, w) ELSE Respawn(p, w)

(* sendWork's catch: the errors after which the loop goes on *)
Retryable_Any(e) == TRUE

Retryable(e) == e \in {Stopped, ShuttingDown}

(* Thread.poolRelease *)
poolRelease(p, w) ==
    [p EXCEPT !.workers[w].pending = @ - 1, !.workers[w].releases = @ + 1]

(* Thread.poolClaim *)
poolClaim(p, w) ==
    [p EXCEPT !.workers[w].pending = @ + 1, !.workers[w].claims = @ + 1]

(* ThreadPool.sendWork from the point where `await thread.sendWork(work)`
   settles: return, or catch, and finally *)
Settled(p, c, how, v) ==
    LET w == p.calls[c].thread
        logged == [p EXCEPT !.calls[c].log = Append(@, v)]
    IN  IF how = "res"
        THEN [poolRelease(logged, w) EXCEPT !.calls[c].pc = "done",
                                            !.calls[c].result = <<"res", v>>]
        ELSE IF Retryable(v)
        THEN [logged EXCEPT !.calls[c].pc = "backoff"]
        ELSE [poolRelease(logged, w) EXCEPT !.calls[c].pc = "done",
                                            !.calls[c].result = <<"rej", v>>]

RECURSIVE SettleAll(_, _, _, _)
SettleAll(p, cs, how, v) ==
    IF cs = {}
    THEN p
    ELSE LET c == CHOOSE x \in cs : TRUE
         IN  SettleAll(Settled(p, c, how, v), cs \ {c}, how, v)

(* ThreadPool.sendWork from the return of selectThread with Thread w, and
   Thread.sendWork up to its promise *)
Send(p, c, w) ==
    LET q == [p EXCEPT !.calls[c].thread = w]
    IN  IF p.closed
        THEN [q EXCEPT !.calls[c].pc = "done",
                       !.calls[c].result = <<"rej", PoolClosed>>]
        ELSE IF p.workers[w].killed
        THEN Settled(q, c, "rej", InvalidOperation)
        ELSE [q EXCEPT !.workers[w].pending = @ + 1,
                       !.workers[w].workQueue = @ \cup {c},
                       !.calls[c].pc = "awaiting"]

(* selectThread: a round of its loop ended without a thread *)
Retry(p, c) ==
    IF p.calls[c].attempt >= QueueRetries
    THEN [p EXCEPT !.calls[c].pc = "done",
                   !.calls[c].result = <<"rej", CouldNotFind>>]
    ELSE [p EXCEPT !.calls[c].pc = "select"]

(* growPool up to its await, for the call c of sendWork that grows *)
GrowPool(p, c) ==
    LET i == p.lastLive + 1
        q == [p EXCEPT
               !.lastLive = i,
               !.objs = @ @@ (NewObj :> [live |-> FALSE, indx |-> i,
                                         initPromise |-> TRUE, thread |-> Null]),
               !.threads = SetSlot(@, i, NewObj),
               !.workers = @ @@ Spawn(pool, NewObj, TRUE),
               !.awaits = @ \cup {[kind |-> "grow", obj |-> NewObj,
                                   target |-> NewObj, worker |-> NewWorker,
                                   call |-> c]}]
    IN  IF c = NoCall THEN q ELSE [q EXCEPT !.calls[c].pc = "growing"]

(* initThreads: the next round of the loop up to its await *)
initThreads ==
    /\ pool.init < pool.minThreads
    /\ ~\E a \in pool.awaits : a.kind = "init"
    /\ pool' = [pool EXCEPT
           !.objs = @ @@ (NewObj :> [live |-> TRUE, indx |-> pool.init,
                                     initPromise |-> FALSE, thread |-> Null]),
           !.workers = @ @@ Spawn(pool, NewObj, FALSE),
           !.awaits = @ \cup {[kind |-> "init", obj |-> NewObj,
                               target |-> NewObj, worker |-> NewWorker,
                               call |-> NoCall]}]
    /\ UNCHANGED <<primVars, toWorker, toParent, thread, worker, promise, call>>

(* the loop of initThreads is over: res(), which settles the promise of
   ThreadPool.spawn unless rej(e) has *)
initDone ==
    /\ pool.init = pool.minThreads
    /\ ~pool.initEnded
    /\ pool' = [pool EXCEPT !.initEnded = TRUE, !.ready = ~pool.rejected]
    /\ UNCHANGED <<primVars, toWorker, toParent, thread, worker, promise, call>>

(* the statements after `await Thread.spawn(...)` throw a TypeError: the
   slot they index is empty *)
ResumeThrows(a) ==
    a.kind # "init" /\ Slot(pool.threads, pool.objs[a.obj].indx) = Null

(* the code after `await Thread.spawn(...)`, by the place of the await;
   growPool's catch calls its close handler *)
Resume(a) ==
    LET objs1 == [pool.objs EXCEPT ![a.target].thread = a.worker]
        at == Slot(pool.threads, objs1[a.obj].indx)
    IN  IF a.kind = "init"
        THEN [pool EXCEPT !.objs = objs1,
                          !.threads = SetSlot(@, objs1[a.obj].indx, a.obj),
                          !.lastLive = pool.init + 1,
                          !.init = @ + 1]
        ELSE IF at = Null
        THEN IF a.kind = "grow"
             THEN Evict([pool EXCEPT !.objs = objs1], a.worker)
             ELSE [pool EXCEPT !.objs = objs1]
        ELSE [pool EXCEPT !.objs = [objs1 EXCEPT ![at].live = TRUE,
                                                 ![at].initPromise = FALSE]]

(* a worker answers __initd: its Thread.spawn resolves, and the sendWork
   that grew the pool goes on with the new Thread *)
spawned(a) ==
    /\ a \in pool.awaits
    /\ pool.workers[a.worker].status = "initialising"
    /\ LET p == [Resume(a) EXCEPT !.workers[a.worker].status = "live",
                                  !.awaits = @ \ {a}]
       IN  pool' = IF a.call = NoCall THEN p
                   ELSE IF ResumeThrows(a) THEN Retry(p, a.call)
                   ELSE Send(p, a.call, a.worker)
    /\ hist' = [hist EXCEPT
           !.respawned = IF a.kind = "respawn" THEN @ + 1 ELSE @,
           !.typeErrors = IF ResumeThrows(a) THEN @ + 1 ELSE @]
    /\ UNCHANGED <<mem, waiters, pc, timeout, val, held, caller, result>>
    /\ UNCHANGED <<toWorker, toParent, thread, worker, promise, call>>

(* selectThread decides to grow (no thread is ready, or the scheduler
   strategy answers 'grow'); growPool up to its await *)
growPool ==
    /\ pool.ready
    /\ ~pool.closed
    /\ \A k \in Prefix : pool.threads[k] # Null
    /\ CanGrow
    /\ NewWorker <= MaxSpawns
    /\ pool' = GrowPool(pool, NoCall)
    /\ UNCHANGED <<primVars, toWorker, toParent, thread, worker, promise, call>>

(* selectThread reads .live of an empty slot: the TypeError is caught and
   the attempt is lost *)
selectThread ==
    /\ pool.ready
    /\ ~pool.closed
    /\ \E k \in Prefix : pool.threads[k] = Null
    /\ hist.typeErrors < MaxSpawns
    /\ hist' = [hist EXCEPT !.typeErrors = @ + 1]
    /\ UNCHANGED <<mem, waiters, pc, timeout, val, held, caller, result>>
    /\ UNCHANGED thrVars

(* the sends of Thread w whose promise is not settled *)
Unsettled(p, w) ==
    {c \in p.workers[w].workQueue :
        p.calls[c].pc = "awaiting" /\ p.calls[c].thread = w}

(* Thread.closeThread: the Thread is stopped, the closeHandler runs and the
   promises of the workQueue are rejected *)
CloseThread(p, w) ==
    SettleAll(closeHandler([p EXCEPT !.workers[w].killed = TRUE], w),
              Unsettled(p, w), "rej", Stopped)

(* a live worker closes: its Thread gets __close *)
exit(w) ==
    /\ w \in Live
    /\ pool.workers[w].grown \/ pool.closed \/ NewWorker <= MaxSpawns
    /\ pool' = [CloseThread(pool, w) EXCEPT !.workers[w].status = "exited"]
    /\ hist' = [hist EXCEPT !.exits = IF pool.workers[w].grown THEN @ ELSE @ + 1]
    /\ UNCHANGED <<mem, waiters, pc, timeout, val, held, caller, result>>
    /\ UNCHANGED <<toWorker, toParent, thread, worker, promise, call>>

(* new ThreadPool(...): maxThreads, minThreads as the constructor sets them *)
NewPool(maxThreads, minThreads) ==
    [threads |-> [k \in 0..(maxThreads - 1) |-> Null],
     objs |-> <<>>, lastLive |-> -1,
     maxThreads |-> maxThreads, minThreads |-> minThreads,
     closed |-> FALSE, init |-> 0, initEnded |-> FALSE, ready |-> FALSE,
     rejected |-> FALSE, workers |-> <<>>, awaits |-> {},
     calls |-> [c \in 1..MaxCalls |-> NewCall]]

(* no primitive and no single Thread beside the pool *)
PoolOnly ==
    /\ mem = <<>> /\ waiters = <<>> /\ pc = <<>> /\ timeout = <<>>
    /\ val = <<>> /\ held = <<>> /\ caller = <<>> /\ result = <<>>
    /\ toWorker = <<>> /\ toParent = <<>> /\ thread = <<>>
    /\ worker = <<>> /\ promise = <<>> /\ call = <<>>

InitPool ==
    /\ PoolOnly
    /\ hist = [exits |-> 0, respawned |-> 0, typeErrors |-> 0]
    /\ \E maxThreads \in 1..MaxThreads : \E minThreads \in 0..maxThreads :
           pool = NewPool(maxThreads, minThreads)

NextPool ==
    \/ initThreads
    \/ initDone
    \/ \E a \in pool.awaits : spawned(a)
    \/ growPool
    \/ selectThread
    \/ \E w \in DOMAIN pool.workers : exit(w)

SpecPool == InitPool /\ [][NextPool]_vars

(* C18: the workers the pool owns, live or initialising, are never more
   than maxThreads = capacity() *)
C18_AtMostCapacity == Cardinality(Owned) <= capacity

(* C19: for every 0 <= minThreads <= maxThreads, once the pool is handed
   out, every slot of the prefix [0..lastLive] holds a thread descriptor
   and size() returns the number of live workers *)
C19_PrefixAndSize ==
    pool.ready =>
        /\ \A k \in Prefix : pool.threads[k] # Null
        /\ size = Cardinality(Live)

(* C20: when the worker of a slot below minThreads has exited and its
   respawn has completed, with no such slot dead or respawning, size()
   returns at least minThreads again *)
C20_RespawnRestoresSize ==
    (/\ pool.ready
     /\ hist.exits > 0
     /\ hist.respawned = hist.exits)
        => size >= pool.minThreads

-----------------------------------------------------------------------------
(* ThreadPool.sendWork: src/src/threadPool.ts lines 199-281

   pool.calls: per call of sendWork [pc, i, attempt, thread, log, result]:
     pc:      "idle", "select" (in selectThread, between two rounds),
              "growing" (in growPool's await), "awaiting" (in the await of
              thread.sendWork), "backoff" (in the catch's timer), "done";
     i:       the loop variable of sendWork, attempt: the one of selectThread;
     thread:  the Thread selectThread returned;
     log:     how each thread.sendWork of the call ended: the value, or the
              message of the error;
     result:  <<"res", value>> or <<"rej", message>>
   a worker's claims and releases count its poolClaim and poolRelease *)

(* ThreadPool.sendWork up to selectThread *)
poolSendWork(c) ==
    /\ pool.ready
    /\ pool.calls[c].pc = "idle"
    /\ \A b \in 1..(c - 1) : pool.calls[b].pc # "idle"
    /\ pool' = IF pool.closed
               THEN [pool EXCEPT !.calls[c].pc = "done",
                                 !.calls[c].result = <<"rej", PoolClosed>>]
               ELSE [pool EXCEPT !.calls[c].pc = "select"]
    /\ UNCHANGED <<primVars, toWorker, toParent, thread, worker, promise, call>>

(* the Threads selectThread hands to the scheduler strategy *)
readyThreads ==
    {pool.objs[pool.threads[k]].thread :
        k \in {j \in Prefix : pool.objs[pool.threads[j]].live}} \ {Null}

(* selectThread: one round of its loop; action is the answer of the
   scheduler strategy *)
selectAttempt(c, action) ==
    /\ pool.calls[c].pc = "select"
    /\ LET p == [pool EXCEPT !.calls[c].attempt = @ + 1]
       IN  IF \E k \in Prefix : pool.threads[k] = Null
           THEN action = Null /\ pool' = Retry(p, c)
           ELSE IF readyThreads = {} /\ CanGrow
           THEN /\ action = Null
                /\ NewWorker <= MaxSpawns
                /\ pool' = GrowPool(p, c)
           ELSE IF action = GrowAction /\ CanGrow
           THEN /\ NewWorker <= MaxSpawns
                /\ pool' = GrowPool(p, c)
           ELSE IF action \notin readyThreads
           THEN pool' = Retry(p, c)
           ELSE pool' = Send(poolClaim(p, action), c, action)
    /\ UNCHANGED <<primVars, toWorker, toParent, thread, worker, promise, call>>

(* the worker's onwork settles and the parent handles its answer: the
   promise of the send is settled, the record deleted *)
onworkSettles(w, c, how) ==
    /\ w \in Live
    /\ c \in Unsettled(pool, w)
    /\ pool' = Settled([pool EXCEPT !.workers[w].workQueue = @ \ {c},
                                   !.workers[w].pending = @ - 1],
                      c, how, IF how = "res" THEN WorkResult ELSE Err)
    /\ UNCHANGED <<primVars, toWorker, toParent, thread, worker, promise, call>>

(* the timer of sendWork's catch fires: finally, and the next round of the
   loop, or its end *)
backoffDone(c) ==
    /\ pool.calls[c].pc = "backoff"
    /\ LET p == [poolRelease(pool, pool.calls[c].thread)
                    EXCEPT !.calls[c].i = @ + 1, !.calls[c].attempt = 0]
       IN  pool' = IF p.calls[c].i >= QueueRetries
                   THEN [p EXCEPT !.calls[c].pc = "done",
                                  !.calls[c].result = <<"res", Undefined>>]
                   ELSE IF p.closed
                   THEN [p EXCEPT !.calls[c].pc = "done",
                                  !.calls[c].result = <<"rej", PoolClosed>>]
                   ELSE [p EXCEPT !.calls[c].pc = "select"]
    /\ UNCHANGED <<primVars, toWorker, toParent, thread, worker, promise, call>>

Calls == 1..MaxCalls

NextPoolSend ==
    \/ initThreads
    \/ initDone
    \/ \E a \in pool.awaits : spawned(a)
    \/ \E w \in DOMAIN pool.workers : exit(w)
    \/ \E c \in Calls : poolSendWork(c)
    \/ \E c \in Calls :
           \E action \in DOMAIN pool.workers \cup {Null, GrowAction} :
               selectAttempt(c, action)
    \/ \E w \in DOMAIN pool.workers : \E c \in Calls :
           \E how \in {"res", "rej"} : onworkSettles(w, c, how)
    \/ \E c \in Calls : backoffDone(c)

SpecPoolSend == InitPool /\ [][NextPoolSend]_vars

(* C21: a send of ThreadPool.sendWork is followed by another one only
   when it failed with "Thread stopped running!" or "Thread is shutting
   down!"; a send that failed with any other error, the one of the
   worker's onwork included, ends the call, which rejects with that error *)
C21_RetryOnlyStopped ==
    \A c \in Calls :
        LET log == pool.calls[c].log
        IN  /\ \A k \in 1..(Len(log) - 1) : log[k] \in {Stopped, ShuttingDown}
            /\ pool.calls[c].pc \in {"select", "growing", "awaiting", "backoff"}
                   => \A k \in 1..Len(log) : log[k] \in {Stopped, ShuttingDown}
            /\ \A k \in 1..Len(log) :
                   log[k] \notin {Stopped, ShuttingDown, WorkResult}
                       => /\ k = Len(log)
                          /\ pool.calls[c].pc = "done"
                          /\ pool.calls[c].result = <<"rej", log[k]>>

C21_Witness ==
    \E c \in Calls :
        /\ pool.calls[c].log = <<Stopped, Err>>
        /\ pool.calls[c].result = <<"rej", Err>>

(* C22: a call of ThreadPool.sendWork that has ended either resolved with
   the value a worker's onwork produced or rejected with an error; it never
   resolves without a worker result *)
C22_ResolvesWithWorkerResult ==
    \A c \in Calls :
        pool.calls[c].pc = "done" =>
            \/ /\ pool.calls[c].result = <<"res", WorkResult>>
               /\ pool.calls[c].log[Len(pool.calls[c].log)] = WorkResult
            \/ /\ pool.calls[c].result[1] = "rej"
               /\ pool.calls[c].result[2] \in
                      {Err, Stopped, InvalidOperation, PoolClosed, CouldNotFind}

(* Thread.numPendingRequests *)
numPendingRequests(w) == pool.workers[w].pending

(* C23: for every Thread of the pool that is not stopped,
   numPendingRequests() is the number of its sends not yet settled plus the
   number of pool claims on it not yet released, and is never negative; no
   poolRelease comes without an earlier poolClaim of its own *)
C23_PendingIsSendsPlusClaims ==
    \A w \in DOMAIN pool.workers :
        ~pool.workers[w].killed =>
        /\ pool.workers[w].releases <= pool.workers[w].claims
        /\ numPendingRequests(w) =
               Cardinality(Unsettled(pool, w))
                   + pool.workers[w].claims - pool.workers[w].releases
        /\ numPendingRequests(w) >= 0

-----------------------------------------------------------------------------
(* ThreadPool.sendWork with workers that close themselves (idle timer or
   their own call of self.close()): src/unnamed/part_014 lines 902-957,
   989-1059

   hist = [exits, respawned, typeErrors, closing, gone, ran]:
     closing: the workers that have called self.close(), which posts __close;
     gone:    those among them whose close sequence has ended (oldClose());
     ran:     per call of sendWork, the workers whose onwork has run for its
              work *)

(* self.close() in worker w: `closing = true`, __close is posted at once;
   the worker goes on handling the messages that arrive (`closed` stays
   false) until the sequence ends *)
selfClose(w) ==
    /\ w \in Live
    /\ w \notin hist.closing
    /\ hist' = [hist EXCEPT !.closing = @ \cup {w}]
    /\ UNCHANGED <<mem, waiters, pc, timeout, val, held, caller, result>>
    /\ UNCHANGED thrVars

(* the end of the close sequence of worker w: oldClose() *)
oldClose(w) ==
    /\ w \in hist.closing \ hist.gone
    /\ hist' = [hist EXCEPT !.gone = @ \cup {w}]
    /\ UNCHANGED <<mem, waiters, pc, timeout, val, held, caller, result>>
    /\ UNCHANGED thrVars

(* the parent's handler gets the __close of worker w: closeThread *)
onClose(w) ==
    /\ w \in hist.closing
    /\ exit(w)

(* self.onmessage of worker w gets the work of call c: onwork runs *)
onwork(w, c) ==
    /\ c \in pool.workers[w].workQueue
    /\ w \notin hist.gone
    /\ w \notin hist.ran[c]
    /\ hist' = [hist EXCEPT !.ran[c] = @ \cup {w}]
    /\ UNCHANGED <<mem, waiters, pc, timeout, val, held, caller, result>>
    /\ UNCHANGED thrVars

(* the answer of worker w for call c reaches the parent *)
onAnswer(w, c, how) ==
    /\ w \in hist.ran[c]
    /\ onworkSettles(w, c, how)

InitPoolRace ==
    /\ PoolOnly
    /\ hist = [exits |-> 0, respawned |-> 0, typeErrors |-> 0,
               closing |-> {}, gone |-> {},
               ran |-> [c \in 1..MaxCalls |-> {}]]
    /\ \E maxThreads \in 1..MaxThreads : \E minThreads \in 0..maxThreads :
           pool = NewPool(maxThreads, minThreads)

(* one call of sendWork *)
NextPoolRace ==
    \/ initThreads
    \/ initDone
    \/ \E a \in pool.awaits : spawned(a)
    \/ poolSendWork(1)
    \/ \E action \in DOMAIN pool.workers \cup {Null, GrowAction} :
           selectAttempt(1, action)
    \/ backoffDone(1)
    \/ \E w \in DOMAIN pool.workers : selfClose(w)
    \/ \E w \in DOMAIN pool.workers : oldClose(w)
    \/ \E w \in DOMAIN pool.workers : onClose(w)
    \/ \E w \in DOMAIN pool.workers : onwork(w, 1)
    \/ \E w \in DOMAIN pool.workers, how \in {"res", "rej"} :
           onAnswer(w, 1, how)

SpecPoolRace == InitPoolRace /\ [][NextPoolRace]_vars

(* C40: for one call of ThreadPool.sendWork, onwork runs for its work on at
   most one worker *)
C40_OnworkOnOneWorker ==
    \A c \in 1..MaxCalls : Cardinality(hist.ran[c]) <= 1

-----------------------------------------------------------------------------
(* The default scheduler strategy: src/src/threadPool.ts lines 102-124

   call = [threads, canGrow, pc, i, min, minThread, ret]: threads[k] is
   numPendingRequests() of the k-th Thread of the array selectThread passes
   (Threads are named by their position in it), ret is the Thread returned,
   GrowAction for 'grow' or Null *)

Busy_OrIdle(min) == min >= 0

(* the test `min > 0` on the fewest pending requests *)
Busy(min) == min > 0

(* threads.length === 0, else min and minThread start from threads[0] *)
strategyBegin ==
    /\ call.pc = "begin"
    /\ call' = IF Len(call.threads) = 0
               THEN [call EXCEPT !.pc = "done",
                                 !.ret = IF call.canGrow THEN GrowAction ELSE Null]
               ELSE [call EXCEPT !.pc = "loop", !.i = 2,
                                 !.min = call.threads[1], !.minThread = 1]
    /\ UNCHANGED <<primVars, toWorker, toParent, thread, worker, promise, pool>>

(* one round of the for loop *)
strategyLoop ==
    /\ call.pc = "loop"
    /\ call.i <= Len(call.threads)
    /\ call' = IF call.threads[call.i] < call.min
               THEN [call EXCEPT !.i = @ + 1, !.min = call.threads[call.i],
                                 !.minThread = call.i]
               ELSE [call EXCEPT !.i = @ + 1]
    /\ UNCHANGED <<primVars, toWorker, toParent, thread, worker, promise, pool>>

(* after the loop: grow if every Thread is busy, else the least loaded one *)
strategyReturn ==
    /\ call.pc = "loop"
    /\ call.i > Len(call.threads)
    /\ call' = [call EXCEPT !.pc = "done",
                            !.ret = IF call.canGrow /\ Busy(call.min)
                                    THEN GrowAction ELSE call.minThread]
    /\ UNCHANGED <<primVars, toWorker, toParent, thread, worker, promise, pool>>

(* the arrays of up to MaxReady Threads with -1..MaxPending pending requests
   (a Thread released without a claim counts -1) *)
RECURSIVE ThreadLists(_)
ThreadLists(n) ==
    IF n = 0 THEN {<<>>}
    ELSE ThreadLists(n - 1) \cup
         {Append(ts, k) : ts \in {x \in ThreadLists(n - 1) : Len(x) = n - 1},
                          k \in (-1)..MaxPending}

InitStrategy ==
    /\ mem = <<>> /\ waiters = <<>> /\ pc = <<>> /\ timeout = <<>>
    /\ val = <<>> /\ held = <<>> /\ caller = <<>> /\ result = <<>>
    /\ hist = <<>> /\ toWorker = <<>> /\ toParent = <<>> /\ thread = <<>>
    /\ worker = <<>> /\ promise = <<>> /\ pool = <<>>
    /\ \E ts \in ThreadLists(MaxReady), g \in BOOLEAN :
           call = [pc |-> "begin", threads |-> ts, canGrow |-> g, i |-> 0,
                   min |-> 0, minThread |-> Null, ret |-> Null]

NextStrategy ==
    \/ strategyBegin
    \/ strategyLoop
    \/ strategyReturn

SpecStrategy == InitStrategy /\ [][NextStrategy]_vars

(* C33: the default strategy returns a Thread only if none of the Threads it
   was given has fewer pending requests, 'grow' only if growth is allowed and
   every Thread it was given has pending requests, and null only if it was
   given no Thread and growth is not allowed; given at least one Thread and no
   growth it returns a Thread *)
C33_DefaultStrategy ==
    call.pc = "done" =>
        LET n == Len(call.threads)
        IN  /\ call.ret \in 1..n =>
                \A k \in 1..n : call.threads[call.ret] <= call.threads[k]
            /\ call.ret = GrowAction =>
                call.canGrow /\ \A k \in 1..n : call.threads[k] > 0
            /\ call.ret = Null => n = 0 /\ ~call.canGrow
            /\ call.ret \in (1..n) \cup {GrowAction, Null}
            /\ (n > 0 /\ ~call.canGrow) => call.ret \in 1..n

(* the strategy passed over two busy Threads for a later idle one while the
   pool could grow *)
C33_Witness ==
    /\ call.pc = "done"
    /\ call.threads = <<2, 1, 0>>
    /\ call.canGrow
    /\ call.ret = 3

-----------------------------------------------------------------------------
(* ThreadPool.close, ThreadPool.kill and a Thread.spawn that rejects:
   src/src/threadPool.ts lines 130-166, 286-303

   hist = [exits, respawned, typeErrors, closeCalls, killCalls, liveAtClose,
           liveAtKill, initFailures]: the calls of close() and kill(), the
           workers that were live when each was called, and the rounds of
           initThreads whose Thread.spawn rejected *)

(* Array.prototype.slice(0, end) of this.threads: the indices it copies; a
   negative end counts from the length *)
Slice(end) ==
    LET len == Cardinality(DOMAIN pool.threads)
        last == IF end < 0
                THEN (IF len + end < 0 THEN 0 ELSE len + end)
                ELSE (IF end > len THEN len ELSE end)
    IN  [k \in 1..last |-> pool.threads[k - 1]]

(* Thread.close *)
ThreadClose(p, w) ==
    [p EXCEPT !.workers[w].killed = TRUE, !.workers[w].closeSent = TRUE]

(* Thread.kill: worker.terminate() and closeThread() *)
ThreadKill(p, w) ==
    [CloseThread(p, w) EXCEPT
        !.workers[w].status = IF @ = "failed" THEN @ ELSE "exited"]

(* the loop of ThreadPool.close over the copied descriptors: t.thread of
   an empty slot, or .close() of no Thread, throws *)
RECURSIVE CloseLoop(_, _)
CloseLoop(p, ts) ==
    IF ts = <<>>
    THEN p
    ELSE LET t == Head(ts)
         IN  IF t = Null \/ p.objs[t].thread = Null
             THEN p
             ELSE CloseLoop(ThreadClose(p, p.objs[t].thread), Tail(ts))

(* the loop of ThreadPool.kill over the copied descriptors: t.live of an
   empty slot throws *)
RECURSIVE KillLoop(_, _)
KillLoop(p, ts) ==
    IF ts = <<>>
    THEN p
    ELSE LET t == Head(ts)
         IN  IF t = Null
             THEN p
             ELSE IF p.objs[t].live /\ p.objs[t].thread # Null
             THEN KillLoop(ThreadKill(p, p.objs[t].thread), Tail(ts))
             ELSE KillLoop(p, Tail(ts))

(* ThreadPool.close *)
poolClose ==
    /\ pool.ready
    /\ hist.closeCalls = 0
    /\ pool' = CloseLoop([pool EXCEPT !.closed = TRUE], Slice(pool.lastLive))
    /\ hist' = [hist EXCEPT !.closeCalls = @ + 1, !.liveAtClose = Live]
    /\ UNCHANGED <<mem, waiters, pc, timeout, val, held, caller, result>>
    /\ UNCHANGED <<toWorker, toParent, thread, worker, promise, call>>

(* ThreadPool.kill *)
poolKill ==
    /\ pool.ready
    /\ hist.killCalls = 0
    /\ pool' = KillLoop([pool EXCEPT !.closed = TRUE], Slice(pool.lastLive))
    /\ hist' = [hist EXCEPT !.killCalls = @ + 1, !.liveAtKill = Live]
    /\ UNCHANGED <<mem, waiters, pc, timeout, val, held, caller, result>>
    /\ UNCHANGED <<toWorker, toParent, thread, worker, promise, call>>

(* the catch of initThreads: the loop over the slots below i; reading
   .thread of an empty slot throws out of initThreads *)
RECURSIVE Cleanup(_, _, _)
Cleanup(p, cleanup, i) ==
    IF cleanup >= i
    THEN [pool |-> p, thrown |-> FALSE]
    ELSE LET t == Slot(p.threads, cleanup)
         IN  IF t = Null \/ p.objs[t].thread = Null
             THEN [pool |-> p, thrown |-> TRUE]
             ELSE LET q == ThreadKill(p, p.objs[t].thread)
                      u == Slot(q.threads, cleanup)
                  IN  Cleanup([q EXCEPT !.objs[u].live = FALSE], cleanup + 1, i)

(* the code after an `await Thread.spawn(...)` that rejected, by the place
   of the await: the catch of initThreads and the next round of its loop,
   the catch of growPool, or the end of the respawning close handler *)
Rejected(a) ==
    LET p == [pool EXCEPT !.workers[a.worker].status = "failed",
                          !.awaits = @ \ {a}]
        c == Cleanup(p, 0, pool.init)
    IN  IF a.kind = "init"
        THEN IF c.thrown
             THEN [c.pool EXCEPT !.init = pool.minThreads, !.initEnded = TRUE]
             ELSE [c.pool EXCEPT !.init = @ + 1, !.rejected = TRUE]
        ELSE IF a.kind = "grow"
        THEN IF a.call = NoCall THEN Evict(p, a.worker)
                                ELSE Retry(Evict(p, a.worker), a.call)
        ELSE p

(* a Thread.spawn rejects: its worker could not be started *)
spawnFails(a) ==
    /\ a \in pool.awaits
    /\ pool.workers[a.worker].status = "initialising"
    /\ NewWorker + pool.init <= MaxSpawns + 1
    /\ pool' = Rejected(a)
    /\ hist' = [hist EXCEPT
           !.initFailures = IF a.kind = "init" THEN @ + 1 ELSE @]
    /\ UNCHANGED <<mem, waiters, pc, timeout, val, held, caller, result>>
    /\ UNCHANGED <<toWorker, toParent, thread, worker, promise, call>>

InitPoolLife ==
    /\ PoolOnly
    /\ hist = [exits |-> 0, respawned |-> 0, typeErrors |-> 0,
               closeCalls |-> 0, killCalls |-> 0, liveAtClose |-> {},
               liveAtKill |-> {}, initFailures |-> 0]
    /\ \E maxThreads \in 1..MaxThreads : \E minThreads \in 0..maxThreads :
           pool = NewPool(maxThreads, minThreads)

NextPoolLife ==
    \/ NextPool
    \/ poolClose
    \/ poolKill
    \/ \E a \in pool.awaits : spawnFails(a)

SpecPoolLife == InitPoolLife /\ [][NextPoolLife]_vars

(* C24: once ThreadPool.close() was called the pool is closed and every
   worker that was live at the call has been sent a graceful close, for
   every mix of minimum and grown slots *)
C24_CloseReachesEveryLive ==
    hist.closeCalls > 0 =>
        /\ pool.closed
        /\ \A w \in hist.liveAtClose : pool.workers[w].closeSent

(* C25: once ThreadPool.kill() was called every worker that was live at
   the call is terminated, for every mix of minimum and grown slots, and
   no worker is live afterwards *)
C25_KillTerminatesEveryLive ==
    hist.killCalls > 0 =>
        /\ pool.closed
        /\ \A w \in hist.liveAtKill : pool.workers[w].status = "exited"

(* C26: once the Thread.spawn of one of the minThreads initial workers has
   rejected, the promise of ThreadPool.spawn is rejected and the pool owns
   no worker: the ones already spawned are killed and none is started or
   respawned *)
C26_InitFailureStopsPool ==
    hist.initFailures > 0 =>
        /\ pool.rejected
        /\ ~pool.ready
        /\ Owned = {}

-----------------------------------------------------------------------------
(* dehydrate / hydrate: src/unnamed/part_014 lines 252-432, and the static
   dehydrate / hydrate of the primitives

   An object is a record of its fields with a field class; a typed array
   over a SharedArrayBuffer is [buffer, length]; undefined is the string
   Undefined where a string is read and UndefinedObj where an object is.
   call = [pc, list, obj, wire, out]: the dehydrationList (an entry is
   [key, id]; the entry a user registers for its type id matches the
   objects of class "User" with type = id), the object dehydrated, its
   dehydrated form and what hydrate made of it *)

UndefinedObj == [class |-> "undefined"]

AddressKey == "__threads_Address"

MutexKey == "__threads_Mutex"

ConditionVariableKey == "__threads_ConditionVariable"

WaitGroupKey == "__threads_WaitGroup"

BarrierKey == "__threads_Barrier"

SemaphoreKey == "__threads_Semaphore"

ErrorKey == "__ERROR"

(* the keys users register their types with *)
UserKey(id) == <<"K1", "K2", "K3", "K4">>[id]

(* new Address(memArray, memOffset, cnt) *)
NewAddress(memArray, memOffset, cnt) ==
    [class |-> "Address", mem |-> memArray, indx |-> memOffset, cnt |-> cnt]

AddressHydrate(v) == NewAddress(v.memory, v.offset, v.cnt)

AddressDehydrate_NoOffset(addr) ==
    [memory |-> addr.mem, offset |-> 0, cnt |-> addr.cnt]

AddressDehydrate(addr) ==
    [memory |-> addr.mem, offset |-> addr.indx, cnt |-> addr.cnt]

NewMutex(address) == [class |-> "Mutex", addr |-> address]

MutexHydrate(v) == NewMutex(AddressHydrate(v.addr))

MutexDehydrate(mux) == [addr |-> AddressDehydrate(mux.addr)]

NewConditionVariable(address) ==
    [class |-> "ConditionVariable", addr |-> address,
     prevOffset |-> address.indx, valOffset |-> address.indx + 1]

ConditionVariableHydrate(v) == NewConditionVariable(AddressHydrate(v.addr))

ConditionVariableDehydrate(cv) == [addr |-> AddressDehydrate(cv.addr)]

NewWaitGroup(address) == [class |-> "WaitGroup", addr |-> address]

WaitGroupHydrate(v) == NewWaitGroup(AddressHydrate(v.addr))

WaitGroupDehydrate(wg) == [addr |-> AddressDehydrate(wg.addr)]

(* new Barrier(mux, addr, needed), mux a Mutex or the Address of one *)
NewBarrier(mux, addr, needed) ==
    [class |-> "Barrier",
     mutex |-> IF mux.class = "Address" THEN NewMutex(mux) ELSE mux,
     addr |-> addr, maxNeeded |-> needed, numHit |-> 0, eventOffset |-> 1]

BarrierHydrate(v) ==
    NewBarrier(MutexHydrate(v.mux), AddressHydrate(v.addr), v.maxNeeded)

BarrierDehydrate(b) ==
    [mux |-> MutexDehydrate(b.mutex), addr |-> AddressDehydrate(b.addr),
     maxNeeded |-> b.maxNeeded]

NewSemaphore(address, value) ==
    [class |-> "Semaphore", addr |-> address, value |-> value]

SemaphoreHydrate(v) == NewSemaphore(AddressHydrate(v.addr), v.value)

SemaphoreDehydrate(sem) ==
    [addr |-> AddressDehydrate(sem.addr), value |-> sem.value]

(* the entry dehydrationList starts with *)
ErrorEntry == [key |-> ErrorKey, id |-> 0]

(* the ruleset a user registers for its type id *)
UserEntry(id) == [key |-> UserKey(id), id |-> id]

(* de.isa(obj), or obj instanceof de.type *)
Isa(de, obj) ==
    IF de.key = ErrorKey
    THEN obj.class = "Error"
    ELSE obj.class = "User" /\ obj.type = de.id

(* the dehydrate and the hydrate of a user's entry: which entry ran and
   what it was given *)
UserDehydrate(de, obj) == [by |-> de.key, data |-> obj.data]

UserHydrate(de, value, type) ==
    [class |-> "User", type |-> de.id, by |-> de.key, received |-> value,
     as |-> type]

(* { __dehydrated: true, __value, __type } *)
Dehydrated(value, type) ==
    [__dehydrated |-> TRUE, __value |-> value, __type |-> type]

RECURSIVE dehydrate(_, _)

(* the dehydrate of the __ERROR entry *)
ErrorDehydrate(list, object) ==
    [name |-> object.name, stack |-> object.stack,
     message |-> object.message, cause |-> dehydrate(list, object.cause)]

EntryDehydrate(list, de, obj) ==
    IF de.key = ErrorKey THEN ErrorDehydrate(list, obj)
                         ELSE UserDehydrate(de, obj)

(* dehydrate(obj): the instanceof chain, then dehydrationList from its
   last entry to its first; an object no entry matches is returned *)
dehydrate(list, obj) ==
    IF obj.class = "undefined" THEN obj
    ELSE IF obj.class = "Address"
    THEN Dehydrated(AddressDehydrate(obj), AddressKey)
    ELSE IF obj.class = "Mutex"
    THEN Dehydrated(MutexDehydrate(obj), MutexKey)
    ELSE IF obj.class = "ConditionVariable"
    THEN Dehydrated(ConditionVariableDehydrate(obj), ConditionVariableKey)
    ELSE IF obj.class = "WaitGroup"
    THEN Dehydrated(WaitGroupDehydrate(obj), WaitGroupKey)
    ELSE IF obj.class = "Barrier"
    THEN Dehydrated(BarrierDehydrate(obj), BarrierKey)
    ELSE IF obj.class = "Semaphore"
    THEN Dehydrated(SemaphoreDehydrate(obj), SemaphoreKey)
    ELSE LET matching == {i \in 1..Len(list) : Isa(list[i], obj)}
             last == CHOOSE i \in matching : \A j \in matching : j <= i
         IN  IF matching = {}
             THEN obj
             ELSE Dehydrated(EntryDehydrate(list, list[last], obj),
                             list[last].key)

(* a property of an object that may not have it *)
GetStr(obj, k) == IF k \in DOMAIN obj THEN obj[k] ELSE Undefined

GetObj(obj, k) == IF k \in DOMAIN obj THEN obj[k] ELSE UndefinedObj

(* `name in self`: the names of the global object the model has, and the
   ones of them that construct an Error *)
Globals == {"Error", "TypeError", Undefined}

ErrorConstructors == {"Error", "TypeError"}

(* new ctor(message, options): the second argument is read as the options
   object, whose cause becomes the cause of the error *)
NewError(ctor, message, options) ==
    [class |-> "Error", ctor |-> ctor, name |-> ctor,
     message |-> IF message = Undefined THEN "" ELSE message,
     stack |-> "at hydrate",
     cause |-> GetObj(options, "cause")]

RECURSIVE hydrate(_, _)

(* the hydrate of the __ERROR entry *)
ErrorHydrate(list, value) ==
    LET cause == hydrate(list, GetObj(value, "cause"))
        name == GetStr(value, "name")
        message == GetStr(value, "message")
        stack == GetStr(value, "stack")
    IN  IF name \in Globals /\ name \in ErrorConstructors
        THEN [NewError(name, message, cause) EXCEPT !.stack = stack]
        ELSE [NewError("Error", message, cause) EXCEPT !.name = name,
                                                       !.stack = stack]

EntryHydrate(list, de, value, type) ==
    IF de.key = ErrorKey THEN ErrorHydrate(list, value)
                         ELSE UserHydrate(de, value, type)

dehydrationKeys(list) ==
    {AddressKey, MutexKey, ConditionVariableKey, WaitGroupKey, BarrierKey,
     SemaphoreKey} \cup {list[i].key : i \in 1..Len(list)}

(* hydrate(obj): the switch over the keys of the primitives, then the
   loop over dehydrationList, which returns in its first round *)
hydrate(list, obj) ==
    IF "__dehydrated" \in DOMAIN obj
    THEN LET type == obj.__type
             v == obj.__value
         IN  IF type = MutexKey THEN MutexHydrate(v)
             ELSE IF type = ConditionVariableKey THEN ConditionVariableHydrate(v)
             ELSE IF type = AddressKey THEN AddressHydrate(v)
             ELSE IF type = WaitGroupKey THEN WaitGroupHydrate(v)
             ELSE IF type = BarrierKey THEN BarrierHydrate(v)
             ELSE IF type = SemaphoreKey THEN SemaphoreHydrate(v)
             ELSE IF type \notin dehydrationKeys(list) THEN obj
             ELSE EntryHydrate(list, list[1], obj, type)
    ELSE obj

(* the typed arrays and the instances of the primitives within the bounds *)
Memories == [buffer : 1..MaxBuffers, length : {MemLen}]

Addresses ==
    {a \in {NewAddress(m, o, c) :
               m \in Memories, o \in 0..(MemLen - 1), c \in 1..MemLen} :
        a.indx + a.cnt <= a.mem.length}

Wide == {a \in Addresses : a.cnt >= 2}

Primitives ==
    Addresses
        \cup {NewMutex(a) : a \in Addresses}
        \cup {NewConditionVariable(a) : a \in Wide}
        \cup {NewWaitGroup(a) : a \in Addresses}
        \cup {NewBarrier(m, a, n) : m \in Wide, a \in Wide, n \in 1..MaxNeeded}
        \cup {NewBarrier(NewMutex(m), a, n) :
                 m \in Wide, a \in Wide, n \in 1..MaxNeeded}
        \cup {NewSemaphore(a, v) : a \in Addresses, v \in 1..SemValue}

(* the errors a handler throws, without and with a cause *)
Plain ==
    {[class |-> "Error", ctor |-> "TypeError", name |-> "TypeError",
      message |-> "boom", stack |-> "at onwork", cause |-> UndefinedObj],
     [class |-> "Error", ctor |-> "Error", name |-> "MyError",
      message |-> "boom", stack |-> "at onwork", cause |-> UndefinedObj]}

Errors ==
    Plain \cup [class : {"Error"}, ctor : {"Error"}, name : {"Error"},
                message : {"failed"}, stack : {"at onwork"}, cause : Plain]

(* the objects of the user's types *)
Users == [class : {"User"}, type : 1..MaxEntries, data : {1, 2}]

Objects == Primitives \cup Errors \cup Users

Registered(id) == \E i \in 1..Len(call.list) : call.list[i] = UserEntry(id)

(* registerDeHydration(ruleset); a key that is registered throws *)
registerDeHydration(id) ==
    /\ call.pc = "idle"
    /\ UserKey(id) \notin dehydrationKeys(call.list)
    /\ call' = [call EXCEPT !.list = Append(@, UserEntry(id))]
    /\ UNCHANGED <<primVars, toWorker, toParent, thread, worker, promise, pool>>

(* postMessage on the sending side: the message is dehydrated *)
postMessage(obj) ==
    /\ call.pc = "idle"
    /\ call' = [call EXCEPT !.pc = "posted", !.obj = obj,
                            !.wire = dehydrate(call.list, obj)]
    /\ UNCHANGED <<primVars, toWorker, toParent, thread, worker, promise, pool>>

(* onmessage on the receiving side: the message is hydrated *)
onmessage ==
    /\ call.pc = "posted"
    /\ call' = [call EXCEPT !.pc = "done",
                            !.out = hydrate(call.list, call.wire)]
    /\ UNCHANGED <<primVars, toWorker, toParent, thread, worker, promise, pool>>

InitHydrate ==
    /\ mem = <<>> /\ waiters = <<>> /\ pc = <<>> /\ timeout = <<>>
    /\ val = <<>> /\ held = <<>> /\ caller = <<>> /\ result = <<>>
    /\ hist = <<>> /\ toWorker = <<>> /\ toParent = <<>> /\ thread = <<>>
    /\ worker = <<>> /\ promise = <<>> /\ pool = <<>>
    /\ call = [pc |-> "idle", list |-> <<ErrorEntry>>, obj |-> UndefinedObj,
               wire |-> UndefinedObj, out |-> UndefinedObj]

NextHydrate ==
    \/ \E id \in 1..MaxEntries : registerDeHydration(id)
    \/ \E obj \in Objects : postMessage(obj)
    \/ onmessage

SpecHydrate == InitHydrate /\ [][NextHydrate]_vars

(* C27: for every instance p of Address, Mutex, ConditionVariable,
   WaitGroup, Barrier and Semaphore, hydrate(dehydrate(p)) is an instance of
   the same type with the same typed array, offset and count in each of its
   addresses and the same parameters *)
C27_PrimitiveRoundTrip ==
    (call.pc = "done" /\ call.obj \in Primitives) => call.out = call.obj

C27_Witness ==
    /\ call.pc = "done"
    /\ call.obj.class = "Barrier"
    /\ call.obj.addr.indx > 0
    /\ call.obj.mutex.addr.mem # call.obj.addr.mem
    /\ Len(call.list) > 1
    /\ call.out = call.obj

(* C28: a value dehydrated by the entry a user registered with key K is
   hydrated by the hydrate of the entry with key K, which is given the
   value the entry's dehydrate produced, however many entries are
   registered *)
C28_HydratedByItsEntry ==
    (/\ call.pc = "done"
     /\ call.obj.class = "User"
     /\ Registered(call.obj.type))
        => LET de == UserEntry(call.obj.type)
           IN  call.out = UserHydrate(de, UserDehydrate(de, call.obj), de.key)

(* C29: an Error that is dehydrated on the sending side and hydrated on the
   receiving side is an Error with the name, the message, the stack and
   the cause of the original *)
C29_ErrorRoundTrip ==
    (call.pc = "done" /\ call.obj.class = "Error") =>
        /\ call.out.class = "Error"
        /\ call.out.name = call.obj.name
        /\ call.out.message = call.obj.message
        /\ call.out.stack = call.obj.stack
        /\ call.out.cause = call.obj.cause

-----------------------------------------------------------------------------
(* make: src/src/memory.ts lines 404-486

   call = [pc, ELEMENT_LAYOUT, next, curBytes, layouts, byteOffset, views]:
     ELEMENT_LAYOUT: the layout of the Type, items [tag, cnt];
     next:     the item the running loop is at;
     layouts:  per item [t, align, bytes];
     views:    per item the typed array asked for: [t, byteOffset, len],
               and whether its constructor threw a RangeError *)

(* x & y of two int32 in two's complement *)
RECURSIVE And(_, _)
And(x, y) ==
    IF x = 0 \/ y = 0 THEN 0
    ELSE IF x = -1 THEN y
    ELSE IF y = -1 THEN x
    ELSE (x % 2) * (y % 2) + 2 * And(x \div 2, y \div 2)

(* ~x of an int32 *)
Not(x) == -x - 1

(* t.BYTES_PER_ELEMENT of the typed array the switch picks for a tag; 0
   for a tag it does not know *)
BytesPerElement(tag) ==
    CASE tag \in {"int8", "uint8", "uint8Clamped"} -> 1
      [] tag \in {"int16", "uint16"} -> 2
      [] tag \in {"int32", "uint32", "f32"} -> 4
      [] tag \in {"int64", "uint64", "f64"} -> 8
      [] OTHER -> 0

(* function alignment(alignment): in JavaScript the binary - binds tighter
   than & *)
alignment(curBytes, a) ==
    IF curBytes = 0
    THEN 0
    ELSE And(curBytes + (a - 1), Not(a - 1) - curBytes)

Tags ==
    {"int8", "int16", "int32", "int64", "uint8", "uint8Clamped", "uint16",
     "uint32", "uint64", "f32", "f64", "int128"}

LayoutItems == [tag : Tags, cnt : 1..MaxCount]

ElementLayouts == UNION {[1..n -> LayoutItems] : n \in 1..MaxItems}

(* the for loop over ELEMENT_LAYOUT: one item *)
layoutItem ==
    /\ call.pc = "layout"
    /\ call.next <= Len(call.ELEMENT_LAYOUT)
    /\ LET l == call.ELEMENT_LAYOUT[call.next]
           byte == BytesPerElement(l.tag)
           align == alignment(call.curBytes, byte)
       IN  call' = IF byte = 0
                   THEN [call EXCEPT !.pc = "Invalid layout"]
                   ELSE [call EXCEPT
                            !.layouts = Append(@, [t |-> l.tag, align |-> align,
                                                   bytes |-> byte * l.cnt]),
                            !.curBytes = @ + align + byte * l.cnt,
                            !.next = @ + 1]
    /\ UNCHANGED <<primVars, toWorker, toParent, thread, worker, promise, pool>>

(* new SharedArrayBuffer(curBytes) *)
allocate ==
    /\ call.pc = "layout"
    /\ call.next > Len(call.ELEMENT_LAYOUT)
    /\ call' = [call EXCEPT !.pc = "views", !.next = 1, !.byteOffset = 0]
    /\ UNCHANGED <<primVars, toWorker, toParent, thread, worker, promise, pool>>

(* new t(buff, byteOffset, len) throws a RangeError when byteOffset is not
   a multiple of the element size or the view does not fit the buffer *)
RangeError(t, buffLength, byteOffset, len) ==
    \/ byteOffset % BytesPerElement(t) # 0
    \/ byteOffset + len * BytesPerElement(t) > buffLength

(* the callback of layouts.map: one view and its Address *)
view ==
    /\ call.pc = "views"
    /\ call.next <= Len(call.layouts)
    /\ LET l == call.layouts[call.next]
           byteOffset == call.byteOffset + l.align
           len == l.bytes \div BytesPerElement(l.t)
           thrown == RangeError(l.t, call.curBytes, byteOffset, len)
       IN  call' = [call EXCEPT
                       !.views = Append(@, [t |-> l.t, byteOffset |-> byteOffset,
                                            len |-> len, thrown |-> thrown]),
                       !.byteOffset = byteOffset + l.bytes,
                       !.next = @ + 1,
                       !.pc = IF thrown THEN "RangeError" ELSE @]
    /\ UNCHANGED <<primVars, toWorker, toParent, thread, worker, promise, pool>>

(* new Type(...addresses, ...args) *)
construct ==
    /\ call.pc = "views"
    /\ call.next > Len(call.layouts)
    /\ call' = [call EXCEPT !.pc = "done"]
    /\ UNCHANGED <<primVars, toWorker, toParent, thread, worker, promise, pool>>

InitMake ==
    /\ mem = <<>> /\ waiters = <<>> /\ pc = <<>> /\ timeout = <<>>
    /\ val = <<>> /\ held = <<>> /\ caller = <<>> /\ result = <<>>
    /\ hist = <<>> /\ toWorker = <<>> /\ toParent = <<>> /\ thread = <<>>
    /\ worker = <<>> /\ promise = <<>> /\ pool = <<>>
    /\ \E layout \in ElementLayouts :
           call = [pc |-> "layout", ELEMENT_LAYOUT |-> layout, next |-> 1,
                   curBytes |-> 0, layouts |-> <<>>, byteOffset |-> 0,
                   views |-> <<>>]

NextMake ==
    \/ layoutItem
    \/ allocate
    \/ view
    \/ construct

SpecMake == InitMake /\ [][NextMake]_vars

(* C30: for every element layout of known tags, layouts that mix element
   widths included, make gets a view for every item, and the byte offset
   of each view in the shared buffer is divisible by the byte width of its
   elements *)
C30_ViewsAligned ==
    /\ call.pc # "RangeError"
    /\ \A i \in 1..Len(call.views) :
           call.views[i].byteOffset % BytesPerElement(call.views[i].t) = 0

-----------------------------------------------------------------------------
(* Address over an Int32Array of MemLen elements: src/src/memory.ts lines
   24-383

   mem  = the elements of the typed array (element k is mem[k + 1])
   call = [this, method, args, ret, thrown]: the Address constructed last
          (NoAddress before, and when the constructor threw), the method
          called last with its arguments, what it returned (<<v>>, or <<>>
          for undefined) and the message of the error it threw
   hist = [before, ops]: the elements when the last call began, and the
          number of calls so far *)

(* x | y and x ^ y of two int32 *)
Or(x, y) == x + y - And(x, y)

Xor(x, y) == x + y - 2 * And(x, y)

NoAddress == [indx |-> 0, cnt |-> 0]

NotThrown == "none"

AddressOutOfBounds == "Address out of bounds!"

OutOfBoundsAccess == "Out of bounds access detected!"

OUT_OF_BOUNDS == "OUT OF BOUNDS!"

PlatformRangeError == "RangeError"

(* Atomics.or, which atomicXor calls *)
AtomicsXor(old, v) == Or(old, v)

(* the guards of the Address methods: get / set test `index < this.cnt`,
   the atomic operations throw on `index >= this.cnt` *)
InBounds(index, cnt) == index < cnt

(* entry of a call on the Address constructed last *)
Called(method, args) ==
    /\ hist.ops < MaxOps
    /\ hist' = [before |-> mem, ops |-> hist.ops + 1]
    /\ UNCHANGED <<waiters, pc, timeout, val, held, caller, result>>
    /\ UNCHANGED <<toWorker, toParent, thread, worker, promise, pool>>

Returned(method, args, ret, thrown) ==
    call' = [call EXCEPT !.method = method, !.args = args, !.ret = ret,
                         !.thrown = thrown]

(* new Address(memArray, memOffset, cnt) *)
newAddress(memOffset, cnt) ==
    /\ Called("constructor", <<memOffset, cnt>>)
    /\ call' = IF memOffset + cnt > MemLen
               THEN [this |-> NoAddress, method |-> "constructor",
                     args |-> <<memOffset, cnt>>, ret |-> <<>>,
                     thrown |-> AddressOutOfBounds]
               ELSE [this |-> [indx |-> memOffset, cnt |-> cnt],
                     method |-> "constructor", args |-> <<memOffset, cnt>>,
                     ret |-> <<>>, thrown |-> NotThrown]
    /\ UNCHANGED mem

(* TypedArray.prototype.at: a negative index counts from the end, undefined
   outside the array *)
At(k) ==
    LET j == IF k < 0 THEN MemLen + k ELSE k
    IN  IF j < 0 \/ j >= MemLen THEN <<>> ELSE <<mem[j + 1]>>

(* Address.get(index) *)
get(index) ==
    /\ call.this # NoAddress
    /\ Called("get", <<index>>)
    /\ IF InBounds(index, call.this.cnt)
       THEN Returned("get", <<index>>, At(call.this.indx + index), NotThrown)
       ELSE Returned("get", <<index>>, <<>>, OutOfBoundsAccess)
    /\ UNCHANGED mem

(* Address.set(value, index): TypedArray.prototype.set([value], offset)
   throws a RangeError when the source does not fit at the offset *)
set(value, index) ==
    /\ call.this # NoAddress
    /\ Called("set", <<value, index>>)
    /\ LET k == call.this.indx + index
       IN  IF ~InBounds(index, call.this.cnt)
           THEN /\ Returned("set", <<value, index>>, <<>>, OutOfBoundsAccess)
                /\ UNCHANGED mem
           ELSE IF k < 0 \/ k + 1 > MemLen
           THEN /\ Returned("set", <<value, index>>, <<>>, PlatformRangeError)
                /\ UNCHANGED mem
           ELSE /\ Returned("set", <<value, index>>, <<>>, NotThrown)
                /\ mem' = [mem EXCEPT ![k + 1] = value]

AtomicsAdd(old, v) == old + v

(* the platform operation that each method of Address hands its arguments
   to *)
AtomicsOp(method, old, v) ==
    IF method = "atomicXor" THEN AtomicsXor(old, v) ELSE AtomicsAdd(old, v)

(* an atomic read-modify-write of Address: the index check, then the
   platform operation, which throws a RangeError for an index outside the
   typed array *)
AtomicRmw(method, v, index) ==
    /\ Called(method, <<v, index>>)
    /\ LET k == call.this.indx + index
       IN  IF ~InBounds(index, call.this.cnt)
           THEN /\ Returned(method, <<v, index>>, <<>>, OUT_OF_BOUNDS)
                /\ UNCHANGED mem
           ELSE IF k < 0 \/ k >= MemLen
           THEN /\ Returned(method, <<v, index>>, <<>>, PlatformRangeError)
                /\ UNCHANGED mem
           ELSE /\ Returned(method, <<v, index>>, <<mem[k + 1]>>, NotThrown)
                /\ mem' = [mem EXCEPT ![k + 1] = AtomicsOp(method, @, v)]

(* Address.atomicAdd(amt, index) *)
atomicAdd(amt, index) ==
    /\ call.this # NoAddress
    /\ AtomicRmw("atomicAdd", amt, index)

(* Address.atomicXor(val, index) *)
atomicXor(v, index) ==
    /\ call.this # NoAddress
    /\ AtomicRmw("atomicXor", v, index)

Indices == (-MemLen)..MemLen

InitAddress ==
    /\ mem = [k \in 1..MemLen |-> 0]
    /\ call = [this |-> NoAddress, method |-> "none", args |-> <<>>,
               ret |-> <<>>, thrown |-> NotThrown]
    /\ hist = [before |-> mem, ops |-> 0]
    /\ waiters = <<>> /\ pc = <<>> /\ timeout = <<>> /\ val = <<>>
    /\ held = <<>> /\ caller = <<>> /\ result = <<>>
    /\ toWorker = <<>> /\ toParent = <<>> /\ thread = <<>>
    /\ worker = <<>> /\ promise = <<>> /\ pool = <<>>

NextAddress ==
    \/ \E memOffset \in 0..MemLen, cnt \in 1..(MemLen + 1) :
           newAddress(memOffset, cnt)
    \/ \E index \in Indices : get(index)
    \/ \E value \in 1..MaxValue, index \in Indices : set(value, index)
    \/ \E index \in Indices : atomicAdd(1, index)
    \/ \E v \in 1..MaxValue, index \in Indices : atomicXor(v, index)

SpecAddress == InitAddress /\ [][NextAddress]_vars

(* C35: a constructor call with offset + count greater than the length of
   the typed array throws, and a get, set or atomic operation with an index
   outside 0..count-1, negative ones included, throws and leaves the elements
   of the typed array as they were *)
C35_OutOfBoundsFails ==
    /\ (call.method = "constructor" /\ call.args[1] + call.args[2] > MemLen)
           => call.thrown # NotThrown
    /\ (/\ call.method \in {"get", "set", "atomicAdd", "atomicXor"}
        /\ call.args[Len(call.args)] \notin 0..(call.this.cnt - 1))
           => call.thrown # NotThrown /\ mem = hist.before

(* C36: an atomicXor(val, index) that returned has replaced the addressed
   element by its exclusive-or with val and returned the element's previous
   value; the other elements are unchanged *)
C36_AtomicXor ==
    (call.method = "atomicXor" /\ call.thrown = NotThrown) =>
        LET k == call.this.indx + call.args[2] + 1
        IN  /\ mem = [hist.before EXCEPT ![k] = Xor(@, call.args[1])]
            /\ call.ret = <<hist.before[k]>>
====
